---- MODULE Spec2Model ----
(***************************************************************************)
(* HIC build tools: the memory layout verifier                             *)
(* (scripts/check_memory_overlap.py), the kernel image builder             *)
(* (scripts/create_hik_image.py), its simplified variant                   *)
(* (scripts/create_hik_image_simple.py) and the module packager            *)
(* (scripts/create_hicmod.py).  Each tool is a state machine of its own;   *)
(* the specifications share the module's variables and leave the other     *)
(* tools' variables unchanged.                                             *)
(***************************************************************************)
EXTENDS Integers, Sequences, FiniteSets, TLC

VARIABLES
    \* ---- memory layout verifier (MemoryOverlapChecker) ----
    pc,                   \* position inside MemoryOverlapChecker.run
    config,               \* self.config, the loaded platform configuration
    regions,              \* self.regions
    errors,               \* self.errors
    warnings,             \* self.warnings
    max_physical_memory,  \* self.max_physical_memory
    check_passed,         \* the local check_passed of run
    returned,             \* what each check method returned, "unrun" before it ran
    report,               \* what print_report printed, <<>> before it ran
    exit_status,          \* the value run returned, -1 while it is running
    nm_output,            \* what nm gave parse_kernel_memory_layout, once it ran
    \* ---- kernel image builder (create_hic_image) ----
    img_pc,               \* "idle" before the call, "done" after it
    img_input,            \* the inputs of the call
    img_file,             \* the bytes at output_path, <<>> when there are none
    img_exists,           \* whether output_path exists
    img_result,           \* "none", "true", "false" or "raised"
    \* ---- simplified image builder (create_hik_image_simple.py) ----
    simple_pc,            \* "idle", "written", "verified", or "raised"
    simple_input,         \* the bytes of the kernel .bin the script read
    simple_file,          \* the bytes at its output path
    simple_log,           \* what the script printed
    \* ---- module packager (create_hicmod / verify_hicmod) ----
    mod_pc,               \* "idle", "created", "verified"
    mod_input,            \* the inputs of create_hicmod
    mod_file,             \* the bytes at output_path
    mod_exists,           \* whether output_path exists
    mod_result,           \* what create_hicmod returned
    mod_parts,            \* the name it printed; the header, module_body and
                          \* signature it concatenated
    verify_input,         \* the public key given to verify_hicmod
    verify_file,          \* the bytes verify_hicmod read from module_path
    verify_result,        \* what verify_hicmod returned
    verify_log,           \* the messages verify_hicmod printed
    \* ---- metadata parser (parse_hicmod_txt) called on its own ----
    parse_pc,             \* "idle" before the call, "done" after it
    parse_input,          \* whether txt_path exists, and the text of the file
    parse_result          \* <<>>, then the exception raised ("none" when it
                          \* returned) and the metadata returned

checker_vars == <<pc, config, regions, errors, warnings, max_physical_memory,
                  check_passed, returned, report, exit_status, nm_output>>
simple_vars == <<simple_pc, simple_input, simple_file, simple_log>>
img_vars == <<img_pc, img_input, img_file, img_exists, img_result, simple_vars>>
parse_vars == <<parse_pc, parse_input, parse_result>>
mod_vars == <<mod_pc, mod_input, mod_file, mod_exists, mod_result, mod_parts,
              verify_input, verify_file, verify_result, verify_log, parse_vars>>
vars == <<checker_vars, img_vars, mod_vars>>

(***************************************************************************)
(* Bounds of the model.                                                    *)
(***************************************************************************)
MaxServices == 2
MaxApmRegions == 1

(***************************************************************************)
(* Generic helpers.                                                        *)
(***************************************************************************)
Min(a, b) == IF a <= b THEN a ELSE b

\* Python's data[lo:hi] on a sequence (0-based, half-open, clamped to the length).
Slice(s, lo, hi) ==
    LET h == Min(hi, Len(s))
    IN  IF lo >= h THEN <<>> ELSE [i \in 1..(h - lo) |-> s[lo + i]]

(***************************************************************************)
(* MemoryRegion                                                            *)
(***************************************************************************)
\* The dataclass built with its four fields name, base, size and end:
\* __post_init__ overwrites the end it was given by base + size.
MemoryRegion(name, base, size) ==
    [name |-> name, base |-> base, size |-> size, end |-> base + size]

\* MemoryRegion(name=..., base=..., size=...), the way every call in the script
\* is written: end is a field without a default, so the generated __init__
\* raises TypeError (missing 1 required positional argument: 'end') before
\* __post_init__ runs, and no region is built.
MemoryRegion_without_end(name, base, size) ==
    [raised |-> "TypeError", name |-> name]

\* Mutant of overlaps_with: strict comparisons, so touching regions overlap.
overlaps_with_strict(self, other) ==
    ~(self.end < other.base \/ other.end < self.base)

overlaps_with(self, other) ==
    ~(self.end <= other.base \/ other.end <= self.base)

\* The messages appended to self.errors / self.warnings: the kind of message, the
\* region names it prints and the number it prints.
Msg(kind, a, b, n) == [kind |-> kind, a |-> a, b |-> b, n |-> n]

(***************************************************************************)
(* MemoryOverlapChecker: constants and inputs                              *)
(***************************************************************************)
kernel_start == 1048576
base_offset == 2097152
PAGE_SIZE == 4096
MAX_KERNEL_SIZE == 2 * 1024 * 1024
MAX_BSS_SIZE == 512 * 1024

CheckNames == {"overlaps", "bounds", "size", "alignment"}

\* The names of the services of a configuration, in the order of the mapping.
ServiceNames == <<"svcA", "svcB", "svcC">>

\* A quota entry: max_memory absent, an integer, or a value that is no number
\* (YAML gives a string for max_memory: 64M).
Quotas ==
    { [kind |-> "absent", max_memory |-> 0],
      [kind |-> "int", max_memory |-> 65536],
      [kind |-> "int", max_memory |-> 6144],
      [kind |-> "str", max_memory |-> 0] }

\* The platform configurations: without resource_quotas, or with service_quotas
\* for the first n services.
ServiceQuotas ==
    UNION { [1..n -> Quotas] : n \in 0..Min(MaxServices, Len(ServiceNames)) }

\* The physical memory a configuration declares (3 MiB), 0 when it declares none.
DeclaredMemory == 3 * 1024 * 1024

Configs ==
    { [has_quotas |-> FALSE, has_services |-> FALSE, service_quotas |-> <<>>,
       max_physical_memory |-> 0],
      [has_quotas |-> FALSE, has_services |-> FALSE, service_quotas |-> <<>>,
       max_physical_memory |-> DeclaredMemory],
      [has_quotas |-> TRUE, has_services |-> FALSE, service_quotas |-> <<>>,
       max_physical_memory |-> 0] }
    \cup { [has_quotas |-> TRUE, has_services |-> TRUE, service_quotas |-> q,
            max_physical_memory |-> 0] :
             q \in ServiceQuotas }

\* hash(service_name): an integer of either sign, fixed within one run of the
\* interpreter and salted anew by the next.
HashValues == {0, 257, -240}

\* What nm prints: a symbol table, as a function from the symbols found to their
\* addresses.
FullTables ==
    { [text_start |-> 1048576, text_end |-> 1089536,
       data_start |-> ds, data_end |-> 1093632,
       bss_start |-> bs, bss_end |-> 1097728,
       lbss_start |-> 1097728, lbss_end |-> le,
       kernel_end |-> ke] :
         ds \in {1089536, 1085440},
         bs \in {1093632, 1093648},
         le \in {1097728, 1097728 + 524288},
         ke \in {1048576, 1101824, 1048576 + 2097152 + 4096} }

Symbols == {"text_start", "text_end", "data_start", "data_end", "bss_start",
            "bss_end", "lbss_start", "lbss_end", "kernel_end"}

Without(tab, sym) == [s \in (DOMAIN tab) \ {sym} |-> tab[s]]

BaseTable ==
    [text_start |-> 1048576, text_end |-> 1089536,
     data_start |-> 1089536, data_end |-> 1093632,
     bss_start |-> 1093632, bss_end |-> 1097728,
     lbss_start |-> 1097728, lbss_end |-> 1097728,
     kernel_end |-> 1101824]

\* A kernel of exactly 2 MiB whose bss and lbss together are exactly 512 KiB.
CapTable ==
    [text_start |-> 1048576, text_end |-> 1089536,
     data_start |-> 1089536, data_end |-> 1093632,
     bss_start |-> 1093632, bss_end |-> 1097728,
     lbss_start |-> 1097728, lbss_end |-> 1097728 + 524288 - 4096,
     kernel_end |-> 1048576 + 2097152]

\* The text/data layout of a small kernel with none of the other symbols.
TextDataTable ==
    [text_start |-> 1048576, text_end |-> 1089536,
     data_start |-> 1089536, data_end |-> 1093632]

NmTables ==
    FullTables \cup {CapTable, TextDataTable}
    \cup { Without(BaseTable, s) : s \in {"data_end", "kernel_end", "text_start",
                                          "text_end"} }

\* The auxiliary region list of build/apm_memory_config.yaml.
ApmRegionConfigs ==
    { [base |-> 4194304, size |-> 4096],
      [base |-> 3145728, size |-> 65537] }

ApmConfigs ==
    UNION { [1..n -> ApmRegionConfigs] : n \in 0..MaxApmRegions }

\* An auxiliary region list whose one entry has a negative size.
NegativeApm == << [base |-> 5242880, size |-> -4096] >>


(***************************************************************************)
(* MemoryOverlapChecker: the methods                                       *)
(***************************************************************************)
\* The patterns of the elif chain over the lines of nm's output, in the order
\* they are tried.
SymbolPatterns ==
    <<"text_start", "text_end", "data_start", "data_end", "bss_start",
      "bss_end", "lbss_start", "lbss_end", "kernel_end">>

\* '_<pat>' in line, for the line of symbol _<sym>: the bss patterns are
\* substrings of the lbss symbols.
InLine(pat, sym) ==
    \/ pat = sym
    \/ pat = "bss_start" /\ sym = "lbss_start"
    \/ pat = "bss_end" /\ sym = "lbss_end"

\* The key the chain stores the address of symbol sym under: that of the first
\* pattern found in its line.
segment_key(sym) ==
    SymbolPatterns[CHOOSE k \in 1..Len(SymbolPatterns) :
                       /\ InLine(SymbolPatterns[k], sym)
                       /\ \A j \in 1..(k - 1) : ~InLine(SymbolPatterns[j], sym)]

\* nm lists the symbols sorted by name; a later line overwrites the key of an
\* earlier one.
NmOrder ==
    <<"bss_end", "bss_start", "data_end", "data_start", "kernel_end",
      "lbss_end", "lbss_start", "text_end", "text_start">>

segments(tab) ==
    [key \in {segment_key(sym) : sym \in DOMAIN tab} |->
        LET last == CHOOSE k \in 1..Len(NmOrder) :
                        /\ NmOrder[k] \in DOMAIN tab
                        /\ segment_key(NmOrder[k]) = key
                        /\ \A j \in (k + 1)..Len(NmOrder) :
                              ~(NmOrder[j] \in DOMAIN tab
                                /\ segment_key(NmOrder[j]) = key)
        IN  tab[NmOrder[last]]]

\* parse_kernel_memory_layout: subprocess.run raises when nm fails;
\* segments['text_start'] / segments['text_end'] raise KeyError when nm printed no
\* such line (the dictionary starts without these keys); otherwise the
\* construction of the first region, kernel.text, raises.  Every path ends in
\* the except clause: the message is appended, nothing is added to self.regions
\* and the method returns False.
parse_kernel_memory_layout(nm_ok, tab) ==
    IF ~nm_ok THEN [ok |-> FALSE, raised |-> "CalledProcessError"]
    ELSE IF {"text_start", "text_end"} \subseteq DOMAIN segments(tab)
    THEN [ok |-> FALSE,
          raised |-> MemoryRegion_without_end("kernel.text",
                         segments(tab)["text_start"],
                         segments(tab)["text_end"]
                           - segments(tab)["text_start"]).raised]
    ELSE [ok |-> FALSE, raised |-> "KeyError"]

_calculate_service_base_address(hash_val, size) ==
    base_offset + (hash_val % 256) * 65536

\* The index of the first quota with a max_memory, 0 when there is none.
FirstQuota(quotas) ==
    IF \E k \in 1..Len(quotas) : quotas[k].kind # "absent"
    THEN CHOOSE k \in 1..Len(quotas) :
             /\ quotas[k].kind # "absent"
             /\ \A j \in 1..(k - 1) : quotas[j].kind = "absent"
    ELSE 0

\* extract_service_memory_regions: returns True at once without resource_quotas;
\* the first quota with a max_memory gets its base address computed and then
\* raises in the construction of its region, and so does the first entry of
\* memory_regions of build/apm_memory_config.yaml.  The except clause appends
\* the message and returns False; nothing is added to self.regions.
\* hash_val: hash() of the name of that first service; apm_exists: whether the
\* file exists; apm: its memory_regions.
extract_service_memory_regions(cfg, hash_val, apm_exists, apm) ==
    IF ~cfg.has_quotas THEN [ok |-> TRUE, raised |-> "none"]
    ELSE IF cfg.has_services /\ FirstQuota(cfg.service_quotas) # 0
    THEN LET k == FirstQuota(cfg.service_quotas)
             q == cfg.service_quotas[k]
         IN  [ok |-> FALSE,
              raised |-> MemoryRegion_without_end(ServiceNames[k],
                             _calculate_service_base_address(hash_val,
                                                             q.max_memory),
                             q.max_memory).raised]
    ELSE IF apm_exists /\ Len(apm) > 0
    THEN [ok |-> FALSE,
          raised |-> MemoryRegion_without_end("apm.region_0", apm[1].base,
                                              apm[1].size).raised]
    ELSE [ok |-> TRUE, raised |-> "none"]

(***************************************************************************)
(* Region lists for the checks.  The script itself never gets a region     *)
(* into self.regions; the checks are driven with the lists its two         *)
(* collecting methods name, every region built with all four fields.       *)
(***************************************************************************)
\* The start/end symbol pairs parse_kernel_memory_layout names, in the order of
\* its appends.
SectionSyms ==
    << [name |-> "kernel.text", s |-> "text_start", e |-> "text_end"],
       [name |-> "kernel.data", s |-> "data_start", e |-> "data_end"],
       [name |-> "kernel.bss", s |-> "bss_start", e |-> "bss_end"],
       [name |-> "kernel.lbss", s |-> "lbss_start", e |-> "lbss_end"] >>

\* The five kernel regions of a table with all nine symbols.
KernelRegions(tab) ==
    [k \in 1..(Len(SectionSyms) + 1) |->
        IF k <= Len(SectionSyms)
        THEN MemoryRegion(SectionSyms[k].name, tab[SectionSyms[k].s],
                          tab[SectionSyms[k].e] - tab[SectionSyms[k].s])
        ELSE MemoryRegion("kernel.total", kernel_start,
                          tab["kernel_end"] - kernel_start)]

\* The regions of the loop over service_quotas: a quota without max_memory is
\* skipped; base + size of a max_memory that is no number raises TypeError in
\* __post_init__, which ends the loop.
RECURSIVE ServiceRegions(_, _, _, _)
ServiceRegions(quotas, hashes, k, acc) ==
    IF k > Len(quotas) THEN acc
    ELSE LET q == quotas[k]
         IN  CASE q.kind = "absent" -> ServiceRegions(quotas, hashes, k + 1, acc)
               [] q.kind = "str" -> acc
               [] OTHER ->
                    ServiceRegions(quotas, hashes, k + 1,
                        Append(acc,
                               MemoryRegion(ServiceNames[k],
                                   _calculate_service_base_address(hashes[k],
                                                                   q.max_memory),
                                   q.max_memory)))

ApmNames == <<"apm.region_0", "apm.region_1", "apm.region_2">>

\* The regions of the loop over memory_regions.
ApmRegions(apm) ==
    [k \in 1..Len(apm) |-> MemoryRegion(ApmNames[k], apm[k].base, apm[k].size)]

\* The regions the two methods name for a configuration, a symbol table and an
\* auxiliary region list.
CollectedRegions(cfg, tab, hashes, apm) ==
    KernelRegions(tab)
    \o (IF cfg.has_quotas /\ cfg.has_services
        THEN ServiceRegions(cfg.service_quotas, hashes, 1, <<>>)
        ELSE <<>>)
    \o (IF cfg.has_quotas /\ (cfg.has_services =>
                                \A k \in 1..Len(cfg.service_quotas) :
                                    cfg.service_quotas[k].kind # "str")
        THEN ApmRegions(apm)
        ELSE <<>>)

\* The two nested loops of check_overlaps: i over the regions, j over those after i.
RECURSIVE OverlapScan(_, _, _, _)
OverlapScan(rs, i, j, acc) ==
    IF i > Len(rs) THEN acc
    ELSE IF j > Len(rs) THEN OverlapScan(rs, i + 1, i + 2, acc)
    ELSE OverlapScan(rs, i, j + 1,
             IF overlaps_with(rs[i], rs[j])
             THEN Append(acc, Msg("overlap", rs[i].name, rs[j].name, 0))
             ELSE acc)

check_overlaps(rs) ==
    LET errs == OverlapScan(rs, 1, 2, <<>>)
    IN  [errors |-> errs, warnings |-> <<>>, ok |-> (errs = <<>>)]

RECURSIVE BoundsScan(_, _, _, _)
BoundsScan(rs, max, k, acc) ==
    IF k > Len(rs) THEN acc
    ELSE LET r == rs[k]
             a1 == IF r.base >= max
                   THEN Append(acc, Msg("bounds_base", r.name, "", r.base))
                   ELSE acc
             a2 == IF r.end > max
                   THEN Append(a1, Msg("bounds_end", r.name, "", r.end))
                   ELSE a1
         IN  BoundsScan(rs, max, k + 1, a2)

check_memory_bounds(rs, max) ==
    IF max = 0 THEN [errors |-> <<>>, warnings |-> <<>>, ok |-> TRUE]
    ELSE LET errs == BoundsScan(rs, max, 1, <<>>)
         IN  [errors |-> errs, warnings |-> <<>>, ok |-> (errs = <<>>)]

\* The region the loop of check_kernel_size_limits leaves in a variable: the last
\* one of that name, 0 when there is none.
RECURSIVE LastNamed(_, _, _)
LastNamed(rs, name, k) ==
    IF k = 0 THEN 0
    ELSE IF rs[k].name = name THEN k ELSE LastNamed(rs, name, k - 1)

\* Mutant of check_kernel_size_limits: a size equal to its cap fails.
check_kernel_size_limits_inclusive(rs) ==
    LET ki == LastNamed(rs, "kernel.total", Len(rs))
        bi == LastNamed(rs, "kernel.bss", Len(rs))
        li == LastNamed(rs, "kernel.lbss", Len(rs))
        e1 == IF ki # 0 /\ rs[ki].size >= MAX_KERNEL_SIZE
              THEN <<Msg("kernel_size", "kernel.total", "", rs[ki].size)>>
              ELSE <<>>
        e2 == IF bi # 0 /\ rs[bi].size >= MAX_BSS_SIZE
              THEN Append(e1, Msg("bss_size", "kernel.bss", "", rs[bi].size))
              ELSE e1
        total_bss == (IF bi # 0 THEN rs[bi].size ELSE 0)
                     + (IF li # 0 THEN rs[li].size ELSE 0)
        e3 == IF li # 0 /\ total_bss >= MAX_BSS_SIZE
              THEN Append(e2, Msg("total_bss", "kernel.bss", "kernel.lbss", total_bss))
              ELSE e2
    IN  [errors |-> e3, warnings |-> <<>>, ok |-> (e3 = <<>>)]

check_kernel_size_limits(rs) ==
    LET ki == LastNamed(rs, "kernel.total", Len(rs))
        bi == LastNamed(rs, "kernel.bss", Len(rs))
        li == LastNamed(rs, "kernel.lbss", Len(rs))
        e1 == IF ki # 0 /\ rs[ki].size > MAX_KERNEL_SIZE
              THEN <<Msg("kernel_size", "kernel.total", "", rs[ki].size)>>
              ELSE <<>>
        e2 == IF bi # 0 /\ rs[bi].size > MAX_BSS_SIZE
              THEN Append(e1, Msg("bss_size", "kernel.bss", "", rs[bi].size))
              ELSE e1
        total_bss == (IF bi # 0 THEN rs[bi].size ELSE 0)
                     + (IF li # 0 THEN rs[li].size ELSE 0)
        e3 == IF li # 0 /\ total_bss > MAX_BSS_SIZE
              THEN Append(e2, Msg("total_bss", "kernel.bss", "kernel.lbss", total_bss))
              ELSE e2
    IN  [errors |-> e3, warnings |-> <<>>, ok |-> (e3 = <<>>)]

\* Mutant of AlignScan: the size is looked at whether or not the base is
\* aligned (if instead of elif).
RECURSIVE AlignScan_independent(_, _, _)
AlignScan_independent(rs, k, acc) ==
    IF k > Len(rs) THEN acc
    ELSE LET r == rs[k]
             a1 == IF r.base % PAGE_SIZE # 0
                   THEN [acc EXCEPT !.errors =
                             Append(@, Msg("align", r.name, "", r.base))]
                   ELSE acc
         IN  AlignScan_independent(rs, k + 1,
                 IF r.size % PAGE_SIZE # 0
                 THEN [a1 EXCEPT !.warnings =
                           Append(@, Msg("size_align", r.name, "", r.size))]
                 ELSE a1)

RECURSIVE AlignScan(_, _, _)
AlignScan(rs, k, acc) ==
    IF k > Len(rs) THEN acc
    ELSE LET r == rs[k]
         IN  AlignScan(rs, k + 1,
                 IF r.base % PAGE_SIZE # 0
                 THEN [acc EXCEPT !.errors =
                           Append(@, Msg("align", r.name, "", r.base))]
                 ELSE IF r.size % PAGE_SIZE # 0
                 THEN [acc EXCEPT !.warnings =
                           Append(@, Msg("size_align", r.name, "", r.size))]
                 ELSE acc)

\* Mutant of check_alignment: a size that is no page multiple fails the check
\* too.
check_alignment_strict(rs) ==
    LET r == AlignScan(rs, 1, [errors |-> <<>>, warnings |-> <<>>])
    IN  [errors |-> r.errors, warnings |-> r.warnings,
         ok |-> (r.errors = <<>> /\ r.warnings = <<>>)]

check_alignment(rs) ==
    LET r == AlignScan(rs, 1, [errors |-> <<>>, warnings |-> <<>>])
    IN  [errors |-> r.errors, warnings |-> r.warnings, ok |-> (r.errors = <<>>)]

(***************************************************************************)
(* MemoryOverlapChecker.run, one action per method it calls                *)
(***************************************************************************)
CheckerInit ==
    /\ pc = "start"
    /\ config = [has_quotas |-> FALSE, has_services |-> FALSE, service_quotas |-> <<>>,
                 max_physical_memory |-> 0]
    /\ regions = <<>>
    /\ errors = <<>>
    /\ warnings = <<>>
    /\ max_physical_memory = 0
    /\ check_passed = TRUE
    /\ returned = [c \in CheckNames |-> "unrun"]
    /\ report = <<>>
    /\ exit_status = -1
    /\ nm_output = [ran |-> FALSE, ok |-> FALSE, symbols |-> {}, table |-> <<>>]

\* load_platform_config: the file loads, or open/yaml raises and run returns 1.
LoadPlatformConfig ==
    /\ pc = "start"
    /\ \E ok \in BOOLEAN, cfg \in Configs :
         IF ok
         THEN /\ config' = cfg
              /\ pc' = "config_loaded"
              /\ UNCHANGED <<errors, exit_status>>
         ELSE /\ cfg = config
              /\ errors' = Append(errors, Msg("load_config", "", "", 0))
              /\ exit_status' = 1
              /\ pc' = "done"
              /\ UNCHANGED config
    /\ UNCHANGED <<regions, warnings, max_physical_memory, check_passed,
                   returned, report, nm_output, img_vars, mod_vars>>

\* parse_kernel_memory_layout: nm fails, or prints a symbol table; run returns 1
\* when the method returns False.
ParseKernelMemoryLayout ==
    /\ pc = "config_loaded"
    /\ \E nm_ok \in BOOLEAN, tab \in NmTables :
         /\ ~nm_ok => tab = BaseTable
         /\ nm_output' = [ran |-> TRUE, ok |-> nm_ok,
                          symbols |-> IF nm_ok THEN DOMAIN tab ELSE {},
                          table |-> IF nm_ok THEN <<tab>> ELSE <<>>]
         /\ IF parse_kernel_memory_layout(nm_ok, tab).ok
            THEN /\ pc' = "kernel_parsed"
                 /\ UNCHANGED <<errors, exit_status>>
            ELSE /\ errors' = Append(errors,
                                  Msg("parse_kernel",
                                      parse_kernel_memory_layout(nm_ok, tab).raised,
                                      "", 0))
                 /\ exit_status' = 1
                 /\ pc' = "done"
    /\ UNCHANGED <<config, regions, warnings, max_physical_memory, check_passed,
                   returned, report, img_vars, mod_vars>>

\* The region list filled in for the checks, in the place of the parse step:
\* run goes on with the extraction.
CollectRegions ==
    /\ pc = "config_loaded"
    /\ \E tab \in FullTables \cup {CapTable},
          hashes \in [1..Len(config.service_quotas) -> HashValues],
          apm \in ApmConfigs \cup {NegativeApm} :
         /\ apm = NegativeApm => tab = BaseTable
         /\ regions' = regions \o CollectedRegions(config, tab, hashes, apm)
    /\ pc' = "kernel_parsed"
    /\ UNCHANGED <<config, errors, warnings, max_physical_memory, check_passed,
                   returned, report, exit_status, nm_output, img_vars, mod_vars>>

\* extract_service_memory_regions: its failure is only a warning on the console.
ExtractServiceMemoryRegions ==
    /\ pc = "kernel_parsed"
    /\ \E hash_val \in HashValues, apm_exists \in BOOLEAN, apm \in ApmConfigs :
         /\ ~apm_exists => apm = <<>>
         /\ errors' =
              IF extract_service_memory_regions(config, hash_val, apm_exists,
                                                apm).ok
              THEN errors
              ELSE Append(errors,
                       Msg("extract_services",
                           extract_service_memory_regions(config, hash_val,
                                                          apm_exists, apm).raised,
                           "", 0))
    /\ pc' = "regions_collected"
    /\ UNCHANGED <<config, regions, warnings, max_physical_memory, check_passed,
                   returned, report, exit_status, nm_output, img_vars, mod_vars>>

\* Mutant of RunCheck: check_passed = self.check_xxx(), the last check decides.
RunCheck_assign(name, r, next) ==
    /\ errors' = errors \o r.errors
    /\ warnings' = warnings \o r.warnings
    /\ check_passed' = r.ok
    /\ returned' = [returned EXCEPT ![name] = IF r.ok THEN "pass" ELSE "fail"]
    /\ pc' = next
    /\ UNCHANGED <<config, regions, max_physical_memory, report, exit_status,
                   nm_output, img_vars, mod_vars>>

\* Mutant of RunCheck: fail-fast, the first failing check goes straight to the
\* report.
RunCheck_failfast(name, r, next) ==
    /\ errors' = errors \o r.errors
    /\ warnings' = warnings \o r.warnings
    /\ check_passed' = (check_passed /\ r.ok)
    /\ returned' = [returned EXCEPT ![name] = IF r.ok THEN "pass" ELSE "fail"]
    /\ pc' = IF r.ok THEN next ELSE "alignment_checked"
    /\ UNCHANGED <<config, regions, max_physical_memory, report, exit_status,
                   nm_output, img_vars, mod_vars>>

\* check_passed &= self.check_xxx()
RunCheck(name, r, next) ==
    /\ errors' = errors \o r.errors
    /\ warnings' = warnings \o r.warnings
    /\ check_passed' = (check_passed /\ r.ok)
    /\ returned' = [returned EXCEPT ![name] = IF r.ok THEN "pass" ELSE "fail"]
    /\ pc' = next
    /\ UNCHANGED <<config, regions, max_physical_memory, report, exit_status,
                   nm_output, img_vars, mod_vars>>

CheckOverlaps ==
    /\ pc = "regions_collected"
    /\ RunCheck("overlaps", check_overlaps(regions), "overlaps_checked")

CheckMemoryBounds ==
    /\ pc = "overlaps_checked"
    /\ RunCheck("bounds", check_memory_bounds(regions, max_physical_memory),
                "bounds_checked")

CheckKernelSizeLimits ==
    /\ pc = "bounds_checked"
    /\ RunCheck("size", check_kernel_size_limits(regions), "size_checked")

CheckAlignment ==
    /\ pc = "size_checked"
    /\ RunCheck("alignment", check_alignment(regions), "alignment_checked")

PrintReport ==
    /\ pc = "alignment_checked"
    /\ report' = <<[regions |-> regions, errors |-> errors, warnings |-> warnings]>>
    /\ pc' = "reported"
    /\ UNCHANGED <<config, regions, errors, warnings, max_physical_memory,
                   check_passed, returned, exit_status, nm_output, img_vars,
                   mod_vars>>

run_result(passed) == IF ~passed THEN 1 ELSE 0

Return ==
    /\ pc = "reported"
    /\ exit_status' = run_result(check_passed)
    /\ pc' = "done"
    /\ UNCHANGED <<config, regions, errors, warnings, max_physical_memory,
                   check_passed, returned, report, nm_output, img_vars,
                   mod_vars>>

CheckerNext ==
    \/ LoadPlatformConfig
    \/ ParseKernelMemoryLayout
    \/ CollectRegions
    \/ ExtractServiceMemoryRegions
    \/ CheckOverlaps
    \/ CheckMemoryBounds
    \/ CheckKernelSizeLimits
    \/ CheckAlignment
    \/ PrintReport
    \/ Return


(***************************************************************************)
(* Binary layout primitives (struct, bytearray)                            *)
(***************************************************************************)
Zeros(n) == [i \in 1..n |-> 0]

\* struct.pack('<I' / '<Q' / '<H', n): the w low bytes of n, least significant first.
RECURSIVE LE(_, _)
LE(n, w) == IF w = 0 THEN <<>> ELSE <<n % 256>> \o LE(n \div 256, w - 1)

\* struct.unpack of a little-endian field.
RECURSIVE UnLE(_)
UnLE(bytes) ==
    IF bytes = <<>> THEN 0 ELSE bytes[1] + 256 * UnLE(Tail(bytes))

\* struct.pack_into(fmt, buf, off, n): the bytes of n written in place at off; the
\* buffer keeps its length.
pack_into(buf, off, bytes) ==
    [i \in 1..Len(buf) |->
        IF i > off /\ i <= off + Len(bytes) THEN bytes[i - off] ELSE buf[i]]

\* buf[lo:hi] = data on a bytearray: the slice is replaced by data whatever its
\* length, so the buffer grows when data is longer than the slice.
slice_assign(buf, lo, hi, data) ==
    Slice(buf, 0, lo) \o data \o Slice(buf, hi, Len(buf))

\* The field of w bytes at offset off of a file.
Field(file, off, w) == UnLE(Slice(file, off, off + w))

(***************************************************************************)
(* create_hic_image                                                        *)
(***************************************************************************)
MaxBinLen == 3

HIC_IMG_MAGIC == <<72, 73, 67, 95, 73, 77, 71, 0>>
HIC_IMG_VERSION == 1
IMG_BASE == 1048576
\* The offset of .bss in the kernel the script was written for, and its size.
bss_offset == 139264
bss_size == 192512
SEG_DESC_SIZE == 40

\* The bytes a payload is made of.
BinBytes == {0, 4, 170}

BinaryCodes == UNION { [1..n -> BinBytes] : n \in 0..MaxBinLen }

\* A payload one byte longer than the offset the script places .bss at.
LongBinaryCode == [i \in 1..(bss_offset + 1) |-> 0]

\* e_entry of the ELF header, elf_data[24:32].
EntryPoints == {1048576, 1048640, 1048560}

\* The inputs of one call: whether the .elf and the companion .bin exist, the
\* entry point the ELF header holds and the bytes of the .bin.
ImageInputs ==
    { [elf_exists |-> FALSE, bin_exists |-> FALSE, entry_point |-> 1048576,
       binary_code |-> <<>>],
      [elf_exists |-> TRUE, bin_exists |-> FALSE, entry_point |-> 1048576,
       binary_code |-> <<>>] }
    \cup { [elf_exists |-> TRUE, bin_exists |-> TRUE, entry_point |-> e,
            binary_code |-> b] : e \in EntryPoints, b \in BinaryCodes }
    \cup { [elf_exists |-> TRUE, bin_exists |-> TRUE, entry_point |-> IMG_BASE,
            binary_code |-> LongBinaryCode] }

\* Mutant of image_total_size: the segment table is left out of the sum.
image_total_size_header_only(binary_code) == 120 + Len(binary_code)

\* total_size = 160 + len(binary_code)
image_total_size(binary_code) == 160 + Len(binary_code)

\* The 120-byte header.
image_header(entry_offset, binary_code) ==
    LET h0 == slice_assign(Zeros(120), 0, 8, HIC_IMG_MAGIC)
        h1 == pack_into(h0, 8, LE(1, 2))
        h2 == pack_into(h1, 10, LE(HIC_IMG_VERSION, 2))
        h3 == pack_into(h2, 12, LE(entry_offset, 8))
        h4 == pack_into(h3, 20, LE(image_total_size(binary_code), 8))
        h5 == pack_into(h4, 28, LE(120, 8))
        h6 == pack_into(h5, 36, LE(2, 8))
        h7 == pack_into(h6, 44, LE(0, 8))
        h8 == pack_into(h7, 52, LE(0, 8))
        h9 == pack_into(h8, 60, LE(0, 8))
    IN  pack_into(h9, 68, LE(0, 8))

\* The 80-byte segment table: the code segment, then the Bss segment.
image_segment_table(code_size) ==
    LET t0 == pack_into(Zeros(80), 0, LE(1, 4))
        t1 == pack_into(t0, 4, LE(7, 4))
        t2 == pack_into(t1, 8, LE(160, 8))
        t3 == pack_into(t2, 16, LE(1048576, 8))
        t4 == pack_into(t3, 24, LE(code_size, 8))
        t5 == pack_into(t4, 32, LE(code_size, 8))
        t6 == pack_into(t5, 40, LE(4, 4))
        t7 == pack_into(t6, 44, LE(3, 4))
        t8 == pack_into(t7, 48, LE(0, 8))
        t9 == pack_into(t8, 56, LE(1187840, 8))
        t10 == pack_into(t9, 64, LE(0, 8))
    IN  pack_into(t10, 72, LE(bss_size, 8))

\* Mutant of create_hic_image: output_path is opened (O_CREAT | O_TRUNC) before
\* the header is packed, so a failing pack_into leaves an empty file behind.
create_hic_image_open_first(in, old_exists, old_file) ==
    LET entry_offset == in.entry_point - IMG_BASE
        unchanged(res) == [result |-> res, exists |-> old_exists, file |-> old_file]
    IN  IF ~in.elf_exists THEN unchanged("raised")
        ELSE IF ~in.bin_exists THEN unchanged("false")
        ELSE IF entry_offset < 0
        THEN [result |-> "raised", exists |-> TRUE, file |-> <<>>]
        ELSE [result |-> "true", exists |-> TRUE,
              file |-> image_header(entry_offset, in.binary_code)
                       \o image_segment_table(Len(in.binary_code))
                       \o in.binary_code]

\* The call as a whole: what it returns and the file it leaves at output_path.
\* open() of a missing .elf raises; a missing .bin returns False; packing a
\* negative entry_offset as '<Q' raises struct.error before the output is opened.
create_hic_image(in, old_exists, old_file) ==
    LET entry_offset == in.entry_point - IMG_BASE
        unchanged(res) == [result |-> res, exists |-> old_exists, file |-> old_file]
    IN  IF ~in.elf_exists THEN unchanged("raised")
        ELSE IF ~in.bin_exists THEN unchanged("false")
        ELSE IF entry_offset < 0 THEN unchanged("raised")
        ELSE [result |-> "true", exists |-> TRUE,
              file |-> image_header(entry_offset, in.binary_code)
                       \o image_segment_table(Len(in.binary_code))
                       \o in.binary_code]

\* What output_path held before the call, when it existed.
OldImage == <<1, 2, 3>>

ImageInit ==
    /\ img_pc = "idle"
    /\ img_input = <<>>
    /\ img_exists \in BOOLEAN
    /\ img_file = IF img_exists THEN OldImage ELSE <<>>
    /\ img_result = "none"

CreateHicImage ==
    /\ img_pc = "idle"
    /\ \E in \in ImageInputs :
         LET r == create_hic_image(in, img_exists, img_file)
         IN  /\ img_input' = <<in>>
             /\ img_result' = r.result
             /\ img_exists' = r.exists
             /\ img_file' = r.file
    /\ img_pc' = "done"
    /\ UNCHANGED <<checker_vars, mod_vars, simple_vars>>

ImageNext == CreateHicImage

(***************************************************************************)
(* create_hik_image_simple.py                                              *)
(***************************************************************************)
\* The bytes of the kernel .bin the script reads.
SimpleBinBytes == {0, 1, 4, 170, 255}

SimpleBinaryCodes == UNION { [1..n -> SimpleBinBytes] : n \in 0..MaxBinLen }

\* b'HIC_IMG': seven bytes.
SIMPLE_MAGIC == <<72, 73, 67, 95, 73, 77, 71>>

\* The header: a bytearray of 120 zero bytes, then one slice assignment per
\* field.
simple_header(binary_code) ==
    LET h0 == slice_assign(Zeros(120), 0, 8, SIMPLE_MAGIC)
        h1 == slice_assign(h0, 8, 10, LE(1, 2))
        h2 == slice_assign(h1, 10, 12, LE(1, 2))
        h3 == slice_assign(h2, 12, 20, LE(0, 8))
        h4 == slice_assign(h3, 20, 28, LE(160 + Len(binary_code), 8))
        h5 == slice_assign(h4, 28, 36, LE(120, 8))
        h6 == slice_assign(h5, 36, 44, LE(2, 8))
        h7 == slice_assign(h6, 44, 52, LE(0, 8))
        h8 == slice_assign(h7, 52, 60, LE(0, 8))
        h9 == slice_assign(h8, 60, 68, LE(0, 8))
    IN  slice_assign(h9, 68, 76, LE(0, 8))

simple_segment_table(code_size) ==
    LET t0 == slice_assign(Zeros(80), 0, 4, LE(1, 4))
        t1 == slice_assign(t0, 4, 8, LE(7, 4))
        t2 == slice_assign(t1, 8, 16, LE(160, 8))
        t3 == slice_assign(t2, 16, 24, LE(1048576, 8))
        t4 == slice_assign(t3, 24, 32, LE(code_size, 8))
        t5 == slice_assign(t4, 32, 40, LE(code_size, 8))
        t6 == slice_assign(t5, 40, 44, LE(4, 4))
        t7 == slice_assign(t6, 44, 48, LE(3, 4))
        t8 == slice_assign(t7, 48, 56, LE(0, 8))
        t9 == slice_assign(t8, 56, 64, LE(1187840, 8))
        t10 == slice_assign(t9, 64, 72, LE(0, 8))
    IN  slice_assign(t10, 72, 80, LE(192512, 8))

\* The bytes the script writes: header, segment table, payload.
simple_image(binary_code) ==
    simple_header(binary_code) \o simple_segment_table(Len(binary_code))
    \o binary_code

\* The verification block: bytes 119 and 120 of the written file against 0x00
\* and 0x01.
simple_check(file) ==
    IF file[119 + 1] = 0 /\ file[120 + 1] = 1 THEN "success" ELSE "failure"

SimpleIdle ==
    /\ simple_pc = "idle"
    /\ simple_input = <<>>
    /\ simple_file = <<>>
    /\ simple_log = <<>>

\* The script up to the end of the write: open() of a missing .bin raises and
\* ends the script; otherwise the debug lines are printed and the file written.
WriteSimpleImage ==
    /\ simple_pc = "idle"
    /\ \E bin_exists \in BOOLEAN, binary_code \in SimpleBinaryCodes :
         IF bin_exists
         THEN /\ simple_input' = <<binary_code>>
              /\ simple_file' = simple_image(binary_code)
              /\ simple_log' =
                   << [line |-> "header length",
                       n |-> Len(simple_header(binary_code))],
                      [line |-> "segment_table length",
                       n |-> Len(simple_segment_table(Len(binary_code)))] >>
              /\ simple_pc' = "written"
         ELSE /\ binary_code = <<>>
              /\ simple_pc' = "raised"
              /\ UNCHANGED <<simple_input, simple_file, simple_log>>
    /\ UNCHANGED <<checker_vars, mod_vars, img_pc, img_input, img_file,
                   img_exists, img_result>>

\* The verification block at the end of the script.
VerifySimpleImage ==
    /\ simple_pc = "written"
    /\ simple_log' = Append(simple_log,
                            [line |-> simple_check(simple_file), n |-> 0])
    /\ simple_pc' = "verified"
    /\ UNCHANGED <<checker_vars, mod_vars, img_pc, img_input, img_file,
                   img_exists, img_result, simple_input, simple_file>>

SimpleNext == WriteSimpleImage \/ VerifySimpleImage

(***************************************************************************)
(* Text primitives (str.strip, str.split, int, UTF-8)                      *)
(***************************************************************************)
\* Texts are sequences of code points.
IsSpace(c) == c \in {9, 10, 11, 12, 13, 32}

RECURSIVE LStrip(_)
LStrip(s) == IF s # <<>> /\ IsSpace(Head(s)) THEN LStrip(Tail(s)) ELSE s

RECURSIVE RStrip(_)
RStrip(s) ==
    IF s # <<>> /\ IsSpace(s[Len(s)]) THEN RStrip(SubSeq(s, 1, Len(s) - 1)) ELSE s

strip(s) == RStrip(LStrip(s))

\* s.find(ch, k - 1) + 1: the first index of ch in s from k on, 0 when there is
\* none.
IndexOf(s, ch, k) ==
    LET at == { i \in k..Len(s) : s[i] = ch }
    IN  IF at = {} THEN 0 ELSE CHOOSE i \in at : \A j \in at : i <= j

\* s.split(ch): the pieces between the occurrences of ch.
split(s, ch) ==
    LET at == { i \in 1..Len(s) : s[i] = ch }
        \* the index of the k-th occurrence; 0 before the first, Len(s) + 1 after
        \* the last
        cut(k) == IF k = 0 THEN 0
                  ELSE IF k > Cardinality(at) THEN Len(s) + 1
                  ELSE CHOOSE i \in at : Cardinality({ j \in at : j <= i }) = k
    IN  [k \in 1..(Cardinality(at) + 1) |-> SubSeq(s, cut(k - 1) + 1, cut(k) - 1)]

\* s.replace(ch, ''): the characters other than ch, in their order.
Remove(s, ch) ==
    LET kept == { i \in 1..Len(s) : s[i] # ch }
        nth(k) == CHOOSE i \in kept : Cardinality({ j \in kept : j <= i }) = k
    IN  [k \in 1..Cardinality(kept) |-> s[nth(k)]]

IsDigit(c) == c >= 48 /\ c <= 57

RECURSIVE DigitsValue(_, _)
DigitsValue(s, acc) ==
    IF s = <<>> THEN acc ELSE DigitsValue(Tail(s), 10 * acc + (Head(s) - 48))

int_of_stripped(t) ==
    IF t = <<>> \/ \E i \in 1..Len(t) : ~IsDigit(t[i]) THEN -1
    ELSE DigitsValue(t, 0)

\* int(x) of a decimal text: surrounding white space is allowed; a text that is
\* empty or holds another character raises ValueError, given here as -1 (the
\* metadata texts hold no sign and no underscore, which int would accept).
int(x) == int_of_stripped(strip(x))

\* text.encode('utf-8'), for code points below 0x800.
\* The index of the character whose bytes include byte k, given the set of the
\* two-byte characters.
Utf8CharAt(s, wide, k) ==
    CHOOSE i \in 1..Len(s) :
        LET off == (i - 1) + Cardinality({ j \in wide : j < i })
        IN  off < k /\ k <= off + (IF i \in wide THEN 2 ELSE 1)

Utf8Byte(s, wide, k, i) ==
    IF i \notin wide THEN s[i]
    ELSE IF k = i + Cardinality({ j \in wide : j < i }) THEN 192 + (s[i] \div 64)
    ELSE 128 + (s[i] % 64)

Utf8Bytes(s, wide) ==
    [k \in 1..(Len(s) + Cardinality(wide)) |->
        Utf8Byte(s, wide, k, Utf8CharAt(s, wide, k))]

utf8(s) == Utf8Bytes(s, { i \in 1..Len(s) : s[i] >= 128 })

\* a | b on non-negative integers.
RECURSIVE BitOr(_, _)
BitOr(a, b) ==
    IF a = 0 THEN b
    ELSE IF b = 0 THEN a
    ELSE (IF a % 2 = 1 \/ b % 2 = 1 THEN 1 ELSE 0) + 2 * BitOr(a \div 2, b \div 2)

\* A dict as a function; <<>> is the empty dict.
Put(f, k, v) == [x \in (DOMAIN f) \cup {k} |-> IF x = k THEN v ELSE f[x]]

Get(f, k, default) == IF k \in DOMAIN f THEN f[k] ELSE default

(***************************************************************************)
(* Digests and signatures (hashlib, cryptography)                          *)
(***************************************************************************)
\* The library digests are stood for by a position-weighted sum of the bytes
\* modulo a prime: every byte, its position and the length go into it, and a
\* change of one byte changes it.
Weighted(data, i) ==
    IF i > Len(data) THEN 0 ELSE ((data[i] + 1) * (131 * i + 7)) % 65521

\* The sum from index lo on, eight bytes a step.
RECURSIVE WeightedSum(_, _)
WeightedSum(data, lo) ==
    IF lo > Len(data) THEN 0
    ELSE (Weighted(data, lo) + Weighted(data, lo + 1) + Weighted(data, lo + 2)
          + Weighted(data, lo + 3) + Weighted(data, lo + 4) + Weighted(data, lo + 5)
          + Weighted(data, lo + 6) + Weighted(data, lo + 7)
          + WeightedSum(data, lo + 8)) % 65521

Mix(data, seed) == (WeightedSum(data, 1) + 257 * Len(data) + seed) % 65521

\* n bytes spread from the digest value m, odd bytes from its low half and even
\* bytes from its high half.
Spread(m, n) ==
    [i \in 1..n |->
        (((IF i % 2 = 1 THEN m % 256 ELSE m \div 256) + i) * (2 * i + 1)) % 256]

\* hashlib.sha256(data).digest(): 32 bytes.
calculate_checksum(data) == Spread(Mix(data, 7), 32)

\* hashlib.md5(data).digest(): 16 bytes.
md5(data) == Spread(Mix(data, 5), 16)

\* An Ed25519 signature of data under the key pair k: 64 bytes.
ed25519_sign(data, k) == Spread(Mix(data, 11 + 1000 * k), 64)

(***************************************************************************)
(* create_hicmod: inputs                                                   *)
(***************************************************************************)
MaxObjLen == 2

HICMOD_MAGIC == 1212763981
HICMOD_VERSION == 1

ObjBytes == {1, 255}

ObjDatas == UNION { [1..n -> ObjBytes] : n \in 0..MaxObjLen }

K_service == <<115, 101, 114, 118, 105, 99, 101>>
K_name == <<110, 97, 109, 101>>
K_version == <<118, 101, 114, 115, 105, 111, 110>>
K_api_version == <<97, 112, 105, 95, 118, 101, 114, 115, 105, 111, 110>>
K_uuid == <<117, 117, 105, 100>>
V_unknown == <<117, 110, 107, 110, 111, 119, 110>>
V_1_0_0 == <<49, 46, 48, 46, 48>>
V_1_0 == <<49, 46, 48>>

\* The metadata texts (hicmod.txt) given to the packager.
Txt_minimal == <<91, 115, 101, 114, 118, 105, 99, 101, 93, 10, 110, 97, 109, 101, 32, 61, 32, 97, 10, 118, 101, 114, 115, 105, 111, 110, 32, 61, 32, 49, 46, 50, 46, 51, 10>>
Txt_full ==
    <<35, 32, 99, 97, 102, 195, 169, 10, 91, 115, 101, 114, 118, 105, 99, 101, 93, 10, 110, 97, 109, 101, 61, 98, 10, 118, 101, 114, 115, 105, 111, 110, 61, 50, 46, 48, 46, 49, 10, 97, 112, 105, 95, 118, 101, 114, 115, 105, 111, 110, 61, 50, 46, 49, 10>>
    \o <<117, 117, 105, 100, 61, 48, 49, 50, 51, 52, 53, 54, 55, 45, 56, 57, 97, 98, 45, 99, 100, 101, 102, 45, 48, 49, 50, 51, 45, 52, 53, 54, 55, 56, 57, 97, 98, 99, 100, 101, 102, 10>>
Txt_before_section == <<110, 97, 109, 101, 61, 97, 10, 91, 115, 101, 114, 118, 105, 99, 101, 93, 10, 118, 101, 114, 115, 105, 111, 110, 61, 49, 46, 48, 46, 48, 10>>
Txt_short_version == <<91, 115, 101, 114, 118, 105, 99, 101, 93, 10, 110, 97, 109, 101, 61, 97, 10, 118, 101, 114, 115, 105, 111, 110, 61, 49, 46, 48, 10>>
Txt_bad_uuid == <<91, 115, 101, 114, 118, 105, 99, 101, 93, 10, 110, 97, 109, 101, 61, 97, 10, 117, 117, 105, 100, 61, 120, 121, 122, 10>>
Txt_no_service == <<91, 111, 116, 104, 101, 114, 93, 10, 107, 61, 118, 10>>

MetadataTexts ==
    {Txt_minimal, Txt_full, Txt_before_section, Txt_short_version, Txt_bad_uuid,
     Txt_no_service, <<>>}

\* The private key given to create_hicmod: no path, a path that does not exist,
\* a key file while the cryptography library is not installed, a file that is no
\* key, or a usable key (pair 1 or 2).
PrivateKeys ==
    { [kind |-> "none", pair |-> 0], [kind |-> "missing", pair |-> 0],
      [kind |-> "unavailable", pair |-> 1], [kind |-> "fails", pair |-> 0],
      [kind |-> "ok", pair |-> 1] }

\* uuid.uuid4().bytes
FreshUUIDs ==
    { <<17, 34, 51, 68, 85, 102, 71, 136, 153, 170, 187, 204, 221, 238, 255, 0>> }

HicmodInputs ==
    { [obj_exists |-> e[1], txt_exists |-> e[2], obj_data |-> <<>>,
       txt |-> <<>>, key |-> [kind |-> "none", pair |-> 0], uuid4 |-> u] :
          e \in {<<FALSE, TRUE>>, <<TRUE, FALSE>>}, u \in FreshUUIDs }
    \cup { [obj_exists |-> TRUE, txt_exists |-> TRUE, obj_data |-> o, txt |-> t,
            key |-> k, uuid4 |-> u] :
             o \in ObjDatas, t \in MetadataTexts, k \in PrivateKeys, u \in FreshUUIDs }

(***************************************************************************)
(* parse_hicmod_txt                                                        *)
(***************************************************************************)
\* key, value = line.split('=', 1), both stripped, stored in the current section.
set_key(st, line, i) ==
    [st EXCEPT !.metadata[st.section] =
        Put(@, strip(SubSeq(line, 1, i - 1)), strip(SubSeq(line, i + 1, Len(line))))]

\* Mutant of parse_stripped: a key=value line outside any section is kept, in
\* a section with the empty name.
parse_stripped_default_section(st, line) ==
    IF line = <<>> \/ Head(line) = 35 THEN st
    ELSE IF Head(line) = 91 /\ line[Len(line)] = 93
    THEN [metadata |-> Put(st.metadata, SubSeq(line, 2, Len(line) - 1), <<>>),
          section |-> SubSeq(line, 2, Len(line) - 1)]
    ELSE IF IndexOf(line, 61, 1) # 0
    THEN set_key([metadata |-> Put(st.metadata, st.section,
                                   Get(st.metadata, st.section, <<>>)),
                  section |-> st.section],
                 line, IndexOf(line, 61, 1))
    ELSE st

\* One stripped line of the loop: st.metadata is the dict so far, st.section the
\* current section (<<>> while there is none).
parse_stripped(st, line) ==
    IF line = <<>> \/ Head(line) = 35 THEN st
    ELSE IF Head(line) = 91 /\ line[Len(line)] = 93
    THEN [metadata |-> Put(st.metadata, SubSeq(line, 2, Len(line) - 1), <<>>),
          section |-> SubSeq(line, 2, Len(line) - 1)]
    ELSE IF st.section # <<>> /\ IndexOf(line, 61, 1) # 0
    THEN set_key(st, line, IndexOf(line, 61, 1))
    ELSE st

parse_line(st, raw) == parse_stripped(st, strip(raw))

RECURSIVE parse_lines(_, _)
parse_lines(st, lines) ==
    IF lines = <<>> THEN st
    ELSE parse_lines(parse_line(st, Head(lines)), Tail(lines))

parse_hicmod_txt(txt) ==
    parse_lines([metadata |-> <<>>, section |-> <<>>], split(txt, 10)).metadata

(***************************************************************************)
(* create_hicmod                                                           *)
(***************************************************************************)
HexValue(c) ==
    IF c >= 48 /\ c <= 57 THEN c - 48
    ELSE IF c >= 97 /\ c <= 102 THEN c - 87
    ELSE IF c >= 65 /\ c <= 70 THEN c - 55
    ELSE -1

HexDigit(n) == IF n < 10 THEN 48 + n ELSE 87 + n

\* str(uuid.UUID(bytes=b)): 32 hex digits in groups of 8-4-4-4-12.
uuid_str_of(b) ==
    LET hex == [i \in 1..32 |->
                   IF i % 2 = 1 THEN HexDigit(b[(i + 1) \div 2] \div 16)
                   ELSE HexDigit(b[i \div 2] % 16)]
    IN  SubSeq(hex, 1, 8) \o <<45>> \o SubSeq(hex, 9, 12) \o <<45>>
        \o SubSeq(hex, 13, 16) \o <<45>> \o SubSeq(hex, 17, 20) \o <<45>>
        \o SubSeq(hex, 21, 32)

uuid_of_hex(hex) ==
    IF Len(hex) # 32 \/ \E i \in 1..Len(hex) : HexValue(hex[i]) < 0
    THEN [ok |-> FALSE, bytes |-> <<>>]
    ELSE [ok |-> TRUE,
          bytes |-> [i \in 1..16 |->
                        16 * HexValue(hex[2 * i - 1]) + HexValue(hex[2 * i])]]

\* uuid.UUID(text).bytes: the hyphens are dropped and 32 hex digits must remain;
\* ok is FALSE where UUID raises ValueError. (UUID also drops braces and a urn:
\* or uuid: prefix; the metadata texts hold none.)
uuid_parse(text) == uuid_of_hex(Remove(text, 45))

\* Mutant of service_fields: a missing name is the empty text.
service_fields_no_default(service_info, uuid4) ==
    [name |-> Get(service_info, K_name, <<>>),
     version_str |-> Get(service_info, K_version, V_1_0_0),
     api_version_str |-> Get(service_info, K_api_version, V_1_0),
     uuid_str |-> Get(service_info, K_uuid, uuid_str_of(uuid4))]

\* Lines 124-128: the four texts taken from the service section.
service_fields(service_info, uuid4) ==
    [name |-> Get(service_info, K_name, V_unknown),
     version_str |-> Get(service_info, K_version, V_1_0_0),
     api_version_str |-> Get(service_info, K_api_version, V_1_0),
     uuid_str |-> Get(service_info, K_uuid, uuid_str_of(uuid4))]

\* [int(x) for x in parts]
ints(parts) == [i \in 1..Len(parts) |-> int(parts[i])]

\* while len(api_version_parts) < 3: api_version_parts.append(0)
pad3(parts) == parts \o Zeros(IF Len(parts) < 3 THEN 3 - Len(parts) ELSE 0)

\* (parts[0] << 16) | (parts[1] << 8) | parts[2]
packed_version(parts) ==
    BitOr(BitOr(parts[1] * 65536, parts[2] * 256), parts[3])

\* Mutant of service_values: a malformed uuid gives the nil UUID.
service_values_nil_uuid(name, version_parts, api_parts, parsed, ok) ==
    [ok |-> ok,
     name |-> name,
     semantic_version |-> IF ok THEN packed_version(version_parts) ELSE 0,
     api_version |-> IF ok THEN packed_version(api_parts) ELSE 0,
     uuid_bytes |-> IF parsed.ok THEN parsed.bytes ELSE Zeros(16)]

\* Lines 130-147. ok is FALSE where the version arithmetic raises (ValueError of
\* int, IndexError of a version with fewer than three parts).
service_values(name, version_parts, api_parts, parsed, ok) ==
    [ok |-> ok,
     name |-> name,
     semantic_version |-> IF ok THEN packed_version(version_parts) ELSE 0,
     api_version |-> IF ok THEN packed_version(api_parts) ELSE 0,
     uuid_bytes |-> IF parsed.ok THEN parsed.bytes ELSE md5(utf8(name))]

versions_ok(version_parts, api_parts) ==
    /\ \A i \in 1..Len(version_parts) : version_parts[i] >= 0
    /\ Len(version_parts) >= 3
    /\ \A i \in 1..Len(api_parts) : api_parts[i] >= 0

service_parts(name, version_parts, api_parts, parsed) ==
    service_values(name, version_parts, pad3(api_parts), parsed,
                   versions_ok(version_parts, api_parts))

service_of_fields(f) ==
    service_parts(f.name, ints(split(f.version_str, 46)),
                  ints(split(f.api_version_str, 46)), uuid_parse(f.uuid_str))

\* Lines 121-147: the service information taken from the metadata text.
hicmod_service_info(txt, uuid4) ==
    service_of_fields(
        service_fields(Get(parse_hicmod_txt(txt), K_service, <<>>), uuid4))

\* Mutant of create_signature: a key file that cannot be used still yields a
\* signature.
create_signature_unchecked(data, key) ==
    IF key.kind \in {"none", "missing"} THEN <<>> ELSE ed25519_sign(data, 1)

\* create_signature: the signature, or <<>> for None (no key path, a path that
\* does not exist, ImportError, any exception while loading the key or signing).
create_signature(data, key) ==
    IF key.kind = "ok" THEN ed25519_sign(data, key.pair) ELSE <<>>

\* Lines 162-175: the header before signing.
hicmod_header(info, obj_data, checksum) ==
    LET header_size == 72
        h0 == pack_into(Zeros(header_size), 0, LE(HICMOD_MAGIC, 4))
        h1 == pack_into(h0, 4, LE(HICMOD_VERSION, 4))
        h2 == slice_assign(h1, 8, 24, info.uuid_bytes)
        h3 == pack_into(h2, 24, LE(info.semantic_version, 4))
        h4 == pack_into(h3, 28, LE(0, 4))
        h5 == pack_into(h4, 32, LE(Len(obj_data), 4))
        h6 == pack_into(h5, 36, LE(0, 4))
        h7 == pack_into(h6, 40, LE(0, 4))
        h8 == pack_into(h7, 44, LE(header_size, 4))
        h9 == slice_assign(h8, 48, 64, checksum)
        h10 == pack_into(h9, 64, LE(0, 4))
    IN  pack_into(h10, 68, LE(0, 4))

\* Mutant of hicmod_sign_header: the signed bit is set whether or not there is
\* a signature.
hicmod_sign_header_always(header, module_body, checksum, signature) ==
    LET g0 == IF signature # <<>> THEN slice_assign(header, 48, 64, checksum)
              ELSE header
        g1 == IF signature # <<>> THEN pack_into(g0, 40, LE(72 + Len(module_body), 4))
              ELSE g0
        g2 == pack_into(g1, 64, LE(Len(signature), 4))
    IN  pack_into(g2, 68, LE(1, 4))

\* Lines 181-187: the header of a signed module.
hicmod_sign_header(header, module_body, checksum, signature) ==
    IF signature = <<>> THEN header
    ELSE LET header_size == 72
             g0 == slice_assign(header, 48, 64, checksum)
             g1 == pack_into(g0, 40, LE(header_size + Len(module_body), 4))
             g2 == pack_into(g1, 64, LE(Len(signature), 4))
         IN  pack_into(g2, 68, LE(1, 4))

\* Lines 189-209: the file is header + module_body (+ signature); parts keeps
\* the three and the module name the call prints.
write_hicmod(name, header, module_body, signature) ==
    [result |-> "true", exists |-> TRUE,
     file |-> header \o module_body \o signature,
     parts |-> <<[name |-> name, header |-> header, module_body |-> module_body,
                  signature |-> signature]>>]

\* Lines 177-192.
sign_hicmod(name, header0, module_body, checksum, signature) ==
    write_hicmod(name, hicmod_sign_header(header0, module_body, checksum, signature),
                 module_body, signature)

\* Lines 159-178.
checksum_hicmod(info, obj_data, module_body, checksum, key) ==
    sign_hicmod(info.name, hicmod_header(info, obj_data, checksum), module_body,
                checksum, create_signature(module_body, key))

\* Lines 120-160; the version arithmetic may raise before anything is written.
build_hicmod(in, info, module_body, unchanged) ==
    IF ~info.ok THEN [unchanged EXCEPT !.result = "raised"]
    ELSE checksum_hicmod(info, in.obj_data, module_body,
                         calculate_checksum(module_body), in.key)

check_inputs(in, unchanged) ==
    IF ~in.obj_exists \/ ~in.txt_exists THEN unchanged
    ELSE build_hicmod(in, hicmod_service_info(in.txt, in.uuid4),
                      in.obj_data \o utf8(in.txt), unchanged)

\* The call as a whole: what it returns, the file it leaves at output_path, and
\* the three parts (header, module_body, signature) the file was made of.
create_hicmod(in, old_exists, old_file) ==
    check_inputs(in, [result |-> "false", exists |-> old_exists, file |-> old_file,
                      parts |-> <<>>])

(***************************************************************************)
(* verify_hicmod                                                           *)
(***************************************************************************)
\* The public key given to verify_hicmod: no path, a path that does not exist, a
\* key while the cryptography library is not installed, or the public key of
\* key pair 1 or 2.
PublicKeys ==
    { [kind |-> "none", pair |-> 0], [kind |-> "missing", pair |-> 0],
      [kind |-> "unavailable", pair |-> 1], [kind |-> "ok", pair |-> 1],
      [kind |-> "ok", pair |-> 2] }

\* verify_signature: False without signature, key path or key file, on
\* ImportError and when public_key.verify raises.
verify_signature(data, signature, public_key) ==
    IF signature = <<>> \/ public_key.kind \in {"none", "missing"} THEN FALSE
    ELSE IF public_key.kind = "unavailable" THEN FALSE
    ELSE signature = ed25519_sign(data, public_key.pair)

\* Mutant of verify_hicmod: the checksum comparison is left out.
verify_hicmod_unchecked(exists, module_data, public_key) ==
    LET code_size == Field(module_data, 32, 4)
        header_size == Field(module_data, 44, 4)
        signature_offset == Field(module_data, 40, 4)
        signature_size == Field(module_data, 64, 4)
        is_signed == (Field(module_data, 68, 4) % 2) # 0
        module_body == Slice(module_data, header_size, header_size + code_size + 256)
        signature == Slice(module_data, signature_offset,
                           signature_offset + signature_size)
        fail(why) == [result |-> "false", log |-> <<why>>]
    IN  IF ~exists THEN fail("missing")
        ELSE IF Len(module_data) < 72 THEN fail("too_small")
        ELSE IF Field(module_data, 0, 4) # HICMOD_MAGIC THEN fail("bad_magic")
        ELSE IF Field(module_data, 4, 4) # HICMOD_VERSION THEN fail("bad_version")
        ELSE IF is_signed /\ public_key.kind # "none"
        THEN IF signature_offset = 0 \/ signature_size = 0
             THEN fail("no_signature_data")
             ELSE IF verify_signature(module_body, signature, public_key)
             THEN [result |-> "true", log |-> <<"signature_valid", "format_ok">>]
             ELSE fail("bad_signature")
        ELSE IF is_signed
        THEN [result |-> "true", log |-> <<"warn_signed_no_key", "format_ok">>]
        ELSE [result |-> "true", log |-> <<"format_ok">>]

\* The call as a whole: what it returns and what it prints.
verify_hicmod(exists, module_data, public_key) ==
    LET code_size == Field(module_data, 32, 4)
        header_size == Field(module_data, 44, 4)
        signature_offset == Field(module_data, 40, 4)
        signature_size == Field(module_data, 64, 4)
        flags == Field(module_data, 68, 4)
        is_signed == (flags % 2) # 0
        module_body == Slice(module_data, header_size, header_size + code_size + 256)
        stored_checksum == Slice(module_data, 48, 64)
        calculated_checksum == calculate_checksum(module_body)
        signature == Slice(module_data, signature_offset,
                           signature_offset + signature_size)
        fail(why) == [result |-> "false", log |-> <<why>>]
    IN  IF ~exists THEN fail("missing")
        ELSE IF Len(module_data) < 72 THEN fail("too_small")
        ELSE IF Field(module_data, 0, 4) # HICMOD_MAGIC THEN fail("bad_magic")
        ELSE IF Field(module_data, 4, 4) # HICMOD_VERSION THEN fail("bad_version")
        ELSE IF stored_checksum # calculated_checksum THEN fail("checksum_mismatch")
        ELSE IF is_signed /\ public_key.kind # "none"
        THEN IF signature_offset = 0 \/ signature_size = 0
             THEN fail("no_signature_data")
             ELSE IF verify_signature(module_body, signature, public_key)
             THEN [result |-> "true", log |-> <<"signature_valid", "format_ok">>]
             ELSE fail("bad_signature")
        ELSE IF is_signed
        THEN [result |-> "true", log |-> <<"warn_signed_no_key", "format_ok">>]
        ELSE [result |-> "true", log |-> <<"format_ok">>]

(***************************************************************************)
(* The packager's actions                                                  *)
(***************************************************************************)
ModuleWritten(r) ==
    /\ mod_result' = r.result
    /\ mod_exists' = r.exists
    /\ mod_file' = r.file
    /\ mod_parts' = r.parts

CreateHicmod ==
    /\ mod_pc = "idle"
    /\ \E in \in HicmodInputs :
         /\ mod_input' = <<in>>
         /\ ModuleWritten(create_hicmod(in, mod_exists, mod_file))
    /\ mod_pc' = "created"
    /\ UNCHANGED <<verify_input, verify_file, verify_result, verify_log,
                   parse_vars, checker_vars, img_vars>>

Verified(r) ==
    /\ verify_result' = r.result
    /\ verify_log' = r.log

\* data with the byte at offset off changed, data itself when it is shorter.
FlipByte(data, off) ==
    IF off >= 0 /\ off < Len(data)
    THEN [data EXCEPT ![off + 1] = (@ + 1) % 256]
    ELSE data

\* What module_path may hold when verify_hicmod reads it: the file as
\* create_hicmod left it, or that file damaged since: its last byte changed
\* (a signature byte of a signed module, a body byte otherwise), the byte 65
\* from the end changed (a body byte of a signed module), the signature offset
\* field cleared, or the file cut short inside the header.
ModuleFiles(file) ==
    {file, FlipByte(file, Len(file) - 1), FlipByte(file, Len(file) - 65),
     IF Len(file) >= 44 THEN pack_into(file, 40, LE(0, 4)) ELSE file,
     Slice(file, 0, 71)}

\* create_hicmod.py --verify <module> [public key]
VerifyHicmod ==
    /\ mod_pc = "created"
    /\ \E k \in PublicKeys, data \in ModuleFiles(mod_file) :
         /\ verify_input' = <<k>>
         /\ verify_file' = data
         /\ Verified(verify_hicmod(mod_exists, data, k))
    /\ mod_pc' = "verified"
    /\ UNCHANGED <<mod_input, mod_file, mod_exists, mod_result, mod_parts,
                   parse_vars, checker_vars, img_vars>>

ModuleNext == CreateHicmod \/ VerifyHicmod

(***************************************************************************)
(* parse_hicmod_txt called on its own                                      *)
(***************************************************************************)
MaxLines == 3

\* The lines a metadata text is made of: "[s]", "[t]", "k=v", " k = w ",
\* "# c=d", "x" and the empty line.
MetadataLines ==
    { <<91, 115, 93>>, <<91, 116, 93>>, <<107, 61, 118>>,
      <<32, 107, 32, 61, 32, 119, 32>>, <<35, 32, 99, 61, 100>>, <<120>>, <<>> }

\* The lines, each ended by a newline.
RECURSIVE JoinLines(_)
JoinLines(lines) ==
    IF lines = <<>> THEN <<>>
    ELSE Head(lines) \o <<10>> \o JoinLines(Tail(lines))

ParseTexts ==
    { JoinLines(ls) : ls \in UNION { [1..n -> MetadataLines] : n \in 0..MaxLines } }

ParseInputs ==
    { [exists |-> TRUE, text |-> t] : t \in ParseTexts }
    \cup { [exists |-> FALSE, text |-> <<>>] }

ParseInit ==
    /\ parse_pc = "idle"
    /\ parse_input \in ParseInputs
    /\ parse_result = <<>>

\* open(txt_path) raises when there is no file; nothing else in the function
\* raises.
ParseHicmodTxt ==
    /\ parse_pc = "idle"
    /\ parse_result' =
          IF parse_input.exists
          THEN [error |-> "none", metadata |-> parse_hicmod_txt(parse_input.text)]
          ELSE [error |-> "FileNotFoundError", metadata |-> <<>>]
    /\ parse_pc' = "done"
    /\ UNCHANGED <<parse_input, mod_pc, mod_input, mod_file, mod_exists, mod_result,
                   mod_parts, verify_input, verify_file, verify_result, verify_log,
                   checker_vars, img_vars>>

ParseNext == ParseHicmodTxt

(***************************************************************************)
(* Initial states and specifications                                       *)
(***************************************************************************)
ImageIdle ==
    /\ img_pc = "idle"
    /\ img_input = <<>>
    /\ img_file = <<>>
    /\ img_exists = FALSE
    /\ img_result = "none"

ModuleIdle ==
    /\ mod_pc = "idle"
    /\ mod_input = <<>>
    /\ mod_file = <<>>
    /\ mod_exists = FALSE
    /\ mod_result = "none"
    /\ mod_parts = <<>>
    /\ verify_input = <<>>
    /\ verify_file = <<>>
    /\ verify_result = "none"
    /\ verify_log = <<>>

ParseIdle ==
    /\ parse_pc = "idle"
    /\ parse_input = [exists |-> FALSE, text |-> <<>>]
    /\ parse_result = <<>>

Init == CheckerInit /\ ImageIdle /\ SimpleIdle /\ ModuleIdle /\ ParseIdle

\* One run of the memory layout verifier.
Spec == Init /\ [][CheckerNext]_vars

\* One call of the kernel image builder.
ImageSpecInit ==
    CheckerInit /\ ImageInit /\ SimpleIdle /\ ModuleIdle /\ ParseIdle

ImageSpec == ImageSpecInit /\ [][ImageNext]_vars

\* One build of a module by the packager, then its verification.
ModuleSpecInit ==
    CheckerInit /\ ImageIdle /\ SimpleIdle /\ ModuleIdle /\ ParseIdle

ModuleSpec == ModuleSpecInit /\ [][ModuleNext]_vars

\* One call of parse_hicmod_txt on a metadata text.
ParseSpecInit ==
    CheckerInit /\ ImageIdle /\ SimpleIdle /\ ModuleIdle /\ ParseInit

\* One run of the simplified image builder.
SimpleImageSpecInit == Init

SimpleImageSpec == SimpleImageSpecInit /\ [][SimpleNext]_vars

ParseSpec == ParseSpecInit /\ [][ParseNext]_vars


(***************************************************************************)
(* Properties of the memory layout verifier                                *)
(***************************************************************************)
\* Two half-open intervals [base, end) meet: each begins before the other ends.
Intersects(a, b) == a.base < b.end /\ b.base < a.end

RegionPairs == { p \in (1..Len(regions)) \X (1..Len(regions)) : p[1] < p[2] }

IntersectingPairs == { p \in RegionPairs : Intersects(regions[p[1]], regions[p[2]]) }

OverlapErrors == { k \in 1..Len(errors) : errors[k].kind = "overlap" }

\* The overlap errors naming the two regions, in either order.
OverlapErrorsNaming(a, b) ==
    { k \in OverlapErrors : {errors[k].a, errors[k].b} = {a, b} }

\* C1: once check_overlaps has run, the error list holds exactly one overlap
\* error for every pair of regions whose intervals intersect (naming both), none
\* for a pair that does not intersect (touching regions included), and the method
\* returned pass exactly when no pair intersects.
C1_OverlapIffIntersect ==
    returned["overlaps"] # "unrun" =>
        /\ \A p \in RegionPairs :
             Cardinality(OverlapErrorsNaming(regions[p[1]].name, regions[p[2]].name))
               = IF p \in IntersectingPairs THEN 1 ELSE 0
        /\ Cardinality(OverlapErrors) = Cardinality(IntersectingPairs)
        /\ (returned["overlaps"] = "pass") <=> (IntersectingPairs = {})

\* C1 witness: check_overlaps ran on a list with an intersecting pair and with a
\* pair of touching regions, and reported the first but not the second.
C1_Witness ==
    /\ returned["overlaps"] = "fail"
    /\ IntersectingPairs # {}
    /\ \E p \in RegionPairs \ IntersectingPairs :
         /\ regions[p[1]].end = regions[p[2]].base
         /\ regions[p[1]].size > 0 /\ regions[p[2]].size > 0
         /\ OverlapErrorsNaming(regions[p[1]].name, regions[p[2]].name) = {}

\* C2: run returns 0 exactly when all four checks returned pass, and non-zero
\* otherwise.
C2_ExitZeroIffAllPass ==
    pc = "done" =>
        /\ exit_status \in {0, 1}
        /\ (exit_status = 0) <=> (\A c \in CheckNames : returned[c] = "pass")

\* C2 witness: a finished run in which the alignment check alone failed and the
\* three checks around it passed; run returned non-zero.
C2_Witness ==
    /\ pc = "done"
    /\ returned["alignment"] = "fail"
    /\ \A c \in CheckNames \ {"alignment"} : returned[c] = "pass"
    /\ exit_status = 1

AllChecksRan == \A c \in CheckNames : returned[c] # "unrun"

ErrorKinds == { errors[k].kind : k \in 1..Len(errors) }

\* C3 as stated: whatever stage failed, a finished run has run all four checks
\* and emitted the report.
C3_AnyStageFailSlow ==
    (pc = "done" /\ errors # <<>>) => (AllChecksRan /\ report # <<>>)

\* Every violation the four checks look for is in the list of errors.
EveryViolationListed(errs) ==
    LET kinds(k) == { i \in 1..Len(errs) : errs[i].kind = k }
    IN  /\ \A p \in IntersectingPairs :
             \E i \in kinds("overlap") :
                 {errs[i].a, errs[i].b} = {regions[p[1]].name, regions[p[2]].name}
        /\ \A r \in 1..Len(regions) :
             regions[r].base % 4096 # 0 =>
                 \E i \in kinds("align") : errs[i].a = regions[r].name
        /\ \A r \in 1..Len(regions) :
             (regions[r].name = "kernel.total" /\ regions[r].size > 2097152) =>
                 kinds("kernel_size") # {}

\* C3 as amended: a failure of the service-region extraction or of a check does
\* not abort the run: the report is emitted only after all four checks ran and
\* lists every violation; a run ends without a report only when the configuration
\* did not load or the kernel layout did not parse, and then with status 1 and no
\* check run.
C3_FailSlowAfterCollection ==
    /\ report # <<>> =>
          /\ AllChecksRan
          /\ report[1].errors = errors
          /\ EveryViolationListed(report[1].errors)
    /\ (pc = "done" /\ ("extract_services" \in ErrorKinds
                        \/ \E c \in CheckNames : returned[c] = "fail")) =>
          (AllChecksRan /\ report # <<>>)
    /\ (pc = "done" /\ report = <<>>) =>
          /\ exit_status = 1
          /\ \A c \in CheckNames : returned[c] = "unrun"
          /\ errors[Len(errors)].kind \in {"load_config", "parse_kernel"}

\* C3 witness: a report that lists an overlap and a misalignment, after the
\* extraction of the service regions had failed.
C3_Witness ==
    /\ report # <<>>
    /\ {"extract_services", "overlap", "align"} \subseteq
           { report[1].errors[k].kind : k \in 1..Len(report[1].errors) }
    /\ returned["overlaps"] = "fail"
    /\ returned["alignment"] = "fail"


\* The regions whose base, or size, is no multiple of the 4096-byte page.
MisalignedBase == { r \in 1..Len(regions) : regions[r].base % 4096 # 0 }

OddSize == { r \in 1..Len(regions) : regions[r].size % 4096 # 0 }

\* The errors and warnings check_alignment appended that name region r.
AlignErrorsNaming(r) ==
    { k \in 1..Len(errors) :
        /\ errors[k].kind = "align"
        /\ errors[k].a = regions[r].name
        /\ errors[k].n = regions[r].base }

SizeWarningsNaming(r) ==
    { k \in 1..Len(warnings) :
        /\ warnings[k].kind = "size_align"
        /\ warnings[k].a = regions[r].name
        /\ warnings[k].n = regions[r].size }

\* C16: check_alignment returns fail, with an error naming the region, if and
\* only if some region's base is no multiple of 4096: every region with such a
\* base has its error, no other region has one; base 4096 passes and base 4097
\* fails.
C16_AlignmentFailsIffMisalignedBase ==
    /\ returned["alignment"] # "unrun" =>
          /\ (returned["alignment"] = "fail") <=> (MisalignedBase # {})
          /\ \A r \in 1..Len(regions) :
                Cardinality(AlignErrorsNaming(r)) = IF r \in MisalignedBase THEN 1 ELSE 0
          /\ Cardinality({ k \in 1..Len(errors) : errors[k].kind = "align" })
                = Cardinality(MisalignedBase)
    /\ check_alignment(<<MemoryRegion("r", 4096, 4096)>>).ok
    /\ ~check_alignment(<<MemoryRegion("r", 4097, 4096)>>).ok

\* check_alignment failed a layout in which one region has a misaligned base
\* and a region with an aligned base has a size that is no page multiple.
C16_Witness ==
    /\ returned["alignment"] = "fail"
    /\ MisalignedBase # {}
    /\ OddSize \ MisalignedBase # {}
    /\ \E r \in MisalignedBase : AlignErrorsNaming(r) # {}

\* C17 as stated: every region whose size is no multiple of 4096 has a warning
\* naming it, whether or not its base is aligned, and such a size alone gives no
\* error and no failed check.
C17_OddSizeAlwaysWarned ==
    returned["alignment"] # "unrun" =>
        /\ \A r \in OddSize : SizeWarningsNaming(r) # {}
        /\ (MisalignedBase = {}) => returned["alignment"] = "pass"

\* C17 as amended: a region whose size is no multiple of 4096 has a warning
\* naming it exactly when its base is aligned; a region with a misaligned base
\* gets the alignment error and no size warning; a size that is no page
\* multiple gives no error and no failed check.
C17_OddSizeWarnedIfBaseAligned ==
    /\ returned["alignment"] # "unrun" =>
          /\ \A r \in 1..Len(regions) :
                Cardinality(SizeWarningsNaming(r))
                  = IF r \in OddSize \ MisalignedBase THEN 1 ELSE 0
          /\ \A r \in OddSize \ MisalignedBase : AlignErrorsNaming(r) = {}
          /\ (MisalignedBase = {}) => returned["alignment"] = "pass"
    /\ check_alignment(<<MemoryRegion("r", 4096, 100)>>) =
          [errors |-> <<>>, warnings |-> <<Msg("size_align", "r", "", 100)>>,
           ok |-> TRUE]

\* check_alignment ran on a layout with two regions of odd size: the one with
\* the misaligned base has no size warning, the one with the aligned base has.
C17_Witness ==
    /\ returned["alignment"] # "unrun"
    /\ \E r \in OddSize \cap MisalignedBase : SizeWarningsNaming(r) = {}
    /\ \E r \in OddSize \ MisalignedBase : SizeWarningsNaming(r) # {}

\* C18: with the physical-memory ceiling unset or zero, check_memory_bounds
\* returns pass and appends no error, and the skip is an entry of the warning
\* list the report prints.
C18_SkipRecordedAsWarning ==
    (returned["bounds"] # "unrun" /\ max_physical_memory = 0) =>
        /\ returned["bounds"] = "pass"
        /\ \A k \in 1..Len(errors) :
              errors[k].kind \notin {"bounds_base", "bounds_end"}
        /\ \E k \in 1..Len(warnings) : warnings[k].kind = "bounds_skipped"
        /\ report # <<>> =>
              \E k \in 1..Len(report[1].warnings) :
                  report[1].warnings[k].kind = "bounds_skipped"

\* The regions that reach past the ceiling c.
PastCeiling(c) ==
    { r \in 1..Len(regions) : regions[r].base > c \/ regions[r].end > c }

\* C19: when the platform configuration declares a non-zero
\* max_physical_memory, the bounds check fails if and only if some region has
\* its base or its end above that ceiling, and a region past the ceiling makes
\* the run fail.
C19_DeclaredCeilingEnforced ==
    (returned["bounds"] # "unrun" /\ config.max_physical_memory # 0) =>
        /\ (returned["bounds"] = "fail")
              <=> (PastCeiling(config.max_physical_memory) # {})
        /\ (pc = "done" /\ PastCeiling(config.max_physical_memory) # {})
              => exit_status = 1

\* The size of the region of that name, 0 when there is none.
RegionSize(name) ==
    IF \E r \in 1..Len(regions) : regions[r].name = name
    THEN regions[CHOOSE r \in 1..Len(regions) : regions[r].name = name].size
    ELSE 0

NmTable == nm_output.table[1]

MaxOf(S) == CHOOSE x \in S : \A y \in S : y <= x

EndSymbols == {"text_end", "data_end", "bss_end", "lbss_end", "kernel_end"}

\* The regions a table with all nine symbols stands for: one per start/end
\* pair, and kernel.total from the load base to the highest end symbol.
LayoutOf(tab) ==
    [k \in 1..(Len(SectionSyms) + 1) |->
        IF k <= Len(SectionSyms)
        THEN [name |-> SectionSyms[k].name, base |-> tab[SectionSyms[k].s],
              size |-> tab[SectionSyms[k].e] - tab[SectionSyms[k].s],
              end |-> tab[SectionSyms[k].e]]
        ELSE [name |-> "kernel.total", base |-> kernel_start,
              size |-> MaxOf({tab[e] : e \in EndSymbols}) - kernel_start,
              end |-> MaxOf({tab[e] : e \in EndSymbols})]]

\* C21: when nm prints all nine symbols, parse_kernel_memory_layout succeeds
\* (no parse error, the run is not ended by it) and self.regions holds exactly
\* kernel.text, kernel.data, kernel.bss, kernel.lbss, each from its start
\* symbol to its end symbol, and kernel.total from 0x100000 to the highest end
\* symbol.
C21_AllSymbolsParsed ==
    (nm_output.ran /\ nm_output.ok /\ nm_output.symbols = Symbols)
        => /\ "parse_kernel" \notin ErrorKinds
           /\ regions = LayoutOf(NmTable)

\* C22: a run on kernel text [0x100000, 0x10a000), kernel data
\* [0x10a000, 0x10b000) and one service with a quota of 0x10000 bytes ends with
\* exit status 0 and an empty error list.
C22_ScenarioPasses ==
    (/\ pc = "done"
     /\ nm_output.ran /\ nm_output.ok
     /\ nm_output.symbols = DOMAIN TextDataTable
     /\ \A sym \in DOMAIN TextDataTable : NmTable[sym] = TextDataTable[sym]
     /\ config.has_services
     /\ config.service_quotas = <<[kind |-> "int", max_memory |-> 65536]>>)
        => /\ exit_status = 0
           /\ errors = <<>>

\* The names of the service regions.
ServiceRegionNames == { ServiceNames[k] : k \in 1..Len(ServiceNames) }

\* The base address one run computes for a service of the given name.
BaseOfName(name) ==
    _calculate_service_base_address(CHOOSE h \in HashValues : TRUE, 0)

\* C23: the base address of a service region is a function of the service's
\* name: whatever the run, the region of a service has the base every other run
\* computes for that name.
C23_BaseDeterminedByName ==
    \A k \in 1..Len(regions) :
        regions[k].name \in ServiceRegionNames
            => regions[k].base = BaseOfName(regions[k].name)

ImgBuilt == img_pc = "done" /\ img_result = "true"

ImgTotalSize == Field(img_file, 20, 8)
ImgHeaderSize == Field(img_file, 28, 8)
ImgSegmentCount == Field(img_file, 36, 8)
ImgSegmentTableSize == ImgSegmentCount * 40

\* The k-th segment descriptor of the file (k from 0), at header_size + 40 k.
ImgSegment(k) ==
    LET off == ImgHeaderSize + 40 * k
    IN  [kind |-> Field(img_file, off, 4),
         permissions |-> Field(img_file, off + 4, 4),
         file_offset |-> Field(img_file, off + 8, 8),
         memory_offset |-> Field(img_file, off + 16, 8),
         file_size |-> Field(img_file, off + 24, 8),
         memory_size |-> Field(img_file, off + 32, 8)]

ImgSegments == [k \in 0..(ImgSegmentCount - 1) |-> ImgSegment(k)]

RECURSIVE SumFileSizes(_)
SumFileSizes(k) ==
    IF k < 0 THEN 0 ELSE ImgSegment(k).file_size + SumFileSizes(k - 1)

\* C4: after a successful build the header's total_size is header_size plus the
\* size of the segment table plus the file sizes of all segments, which is the
\* number of bytes written to the output file.
C4_TotalSizeIsSum ==
    ImgBuilt =>
        /\ ImgTotalSize = ImgHeaderSize + ImgSegmentTableSize
                          + SumFileSizes(ImgSegmentCount - 1)
        /\ ImgTotalSize = Len(img_file)

\* The payload of the file-backed segments before segment k.
RECURSIVE PayloadBefore(_)
PayloadBefore(k) ==
    IF k <= 0 THEN 0 ELSE ImgSegment(k - 1).file_size + PayloadBefore(k - 1)

\* C5: in the written file every file-backed segment's file_offset is
\* header_size + segment table size + the payload before it, and the bytes of
\* the file at [file_offset, file_offset + file_size) are that segment's payload.
C5_FileOffsetLocatesPayload ==
    ImgBuilt =>
        \A k \in DOMAIN ImgSegments :
            ImgSegments[k].kind # 4 =>
                /\ ImgSegments[k].file_offset
                     = ImgHeaderSize + ImgSegmentTableSize + PayloadBefore(k)
                /\ Slice(img_file, ImgSegments[k].file_offset,
                         ImgSegments[k].file_offset + ImgSegments[k].file_size)
                     = img_input[1].binary_code

\* C6: every segment descriptor of a written image has memory_size >= file_size
\* and file_offset + file_size <= total_size.
C6_SegmentInvariant ==
    ImgBuilt =>
        \A k \in DOMAIN ImgSegments :
            /\ ImgSegments[k].memory_size >= ImgSegments[k].file_size
            /\ ImgSegments[k].file_offset + ImgSegments[k].file_size <= ImgTotalSize

\* C6 witness: an image with a payload was written; it has a file-backed code
\* segment and a Bss segment without bytes in the file.
C6_Witness ==
    /\ ImgBuilt
    /\ Len(img_input[1].binary_code) > 0
    /\ ImgSegmentCount = 2
    /\ ImgSegments[0].file_size = Len(img_input[1].binary_code)
    /\ ImgSegments[1].file_size = 0 /\ ImgSegments[1].memory_size > 0

\* The configuration errors of a call: the entry point of the ELF is below the
\* load base, or the companion .bin is missing.
ImgConfigError(in) ==
    in.elf_exists /\ (in.entry_point < IMG_BASE \/ ~in.bin_exists)

\* C24: a call with an entry point below 0x100000 or without its .bin fails
\* (returns False or raises) and leaves output_path as it was: not created when
\* it did not exist, its bytes unchanged when it did.
C24_NoPartialOutput ==
    [][(img_pc' = "done" /\ ImgConfigError(img_input'[1]))
          => /\ img_result' \in {"false", "raised"}
             /\ img_exists' = img_exists
             /\ img_file' = img_file]_vars

\* C24 witness: a call with an entry point below the base and its .bin in place
\* has raised, and the image that was at output_path is still there.
C24_Witness ==
    /\ img_pc = "done"
    /\ img_input[1].bin_exists
    /\ img_input[1].entry_point < IMG_BASE
    /\ img_result = "raised"
    /\ img_exists /\ img_file = OldImage

\* The memory range [memory_offset, memory_offset + memory_size) of two segment
\* descriptors have no address in common.
MemoryDisjoint(a, b) ==
    \/ a.memory_offset + a.memory_size <= b.memory_offset
    \/ b.memory_offset + b.memory_size <= a.memory_offset

\* C30: in every image built, whatever the length of the payload, the memory
\* range of the code segment [0x100000, 0x100000 + code_size) and that of the
\* Bss segment [0x122000, 0x122000 + 0x2f000) are disjoint.
C30_SegmentsDisjoint ==
    ImgBuilt => MemoryDisjoint(ImgSegments[0], ImgSegments[1])

\* C28: once the simplified builder has run its check, byte 119 of the file it
\* wrote is 0x00 (the header is 120 bytes long), byte 120 is 0x01 (the segment
\* table starts there) and the script has printed its success message.
C28_SimpleImageVerified ==
    simple_pc = "verified"
        => /\ simple_file[119 + 1] = 0
           /\ simple_file[120 + 1] = 1
           /\ simple_log[Len(simple_log)].line = "success"

(***************************************************************************)
(* Properties of the module packager                                       *)
(***************************************************************************)
ModBuilt == mod_result = "true"

ModInput == mod_input[1]

ModHeader == mod_parts[1].header

ModBody == mod_parts[1].module_body

ModSignature == mod_parts[1].signature

\* The fields of the written file at the offsets verify_hicmod reads them from.
ModSignatureOffset == Field(mod_file, 40, 4)

ModSignatureSize == Field(mod_file, 64, 4)

ModSignedFlag == Field(mod_file, 68, 4) % 2

\* The bytes of the file after header and body.
ModTrailer ==
    SubSeq(mod_file, Len(ModHeader) + Len(ModBody) + 1, Len(mod_file))

\* The inputs with which nothing but signing can fail.
ModInputsValid ==
    /\ ModInput.obj_exists
    /\ ModInput.txt_exists
    /\ hicmod_service_info(ModInput.txt, ModInput.uuid4).ok

\* C7: for every module file create_hicmod has produced, verify_hicmod on the
\* untampered file finds the recomputed checksum equal to the stored one, and
\* with no public key an unsigned module verifies successfully.
C7_ChecksumVerifiable ==
    (mod_pc = "verified" /\ ModBuilt /\ verify_file = mod_file) =>
        /\ verify_log # <<"checksum_mismatch">>
        /\ (ModSignature = <<>> /\ verify_input[1].kind = "none")
               => verify_result = "true"

\* C8: in every module file written by create_hicmod the signed flag (bit 0 of
\* the flags field) is set if and only if a non-empty signature block follows
\* the body in the file.
C8_SignedFlagIffSignature ==
    ModBuilt =>
        /\ mod_exists
        /\ SubSeq(mod_file, 1, Len(ModHeader)) = ModHeader
        /\ SubSeq(mod_file, Len(ModHeader) + 1, Len(ModHeader) + Len(ModBody))
               = ModInput.obj_data \o utf8(ModInput.txt)
        /\ ModTrailer = ModSignature
        /\ (ModSignedFlag = 1) <=> (ModTrailer # <<>>)

\* A signed module has been written: the flag is set and 64 bytes follow the
\* body.
C8_Witness ==
    /\ ModBuilt
    /\ ModInput.key.kind = "ok"
    /\ ModSignedFlag = 1
    /\ Len(ModTrailer) = 64

\* C9: in a signed module the header's signature_offset and signature_size
\* identify exactly the signature bytes of the written file, which lie
\* immediately after the body.
C9_SignatureLocated ==
    (ModBuilt /\ ModSignature # <<>>) =>
        /\ ModSignatureOffset = Len(ModHeader) + Len(ModBody)
        /\ Slice(mod_file, ModSignatureOffset,
                 ModSignatureOffset + ModSignatureSize) = ModSignature

\* C10: with no private key, a key path that does not exist, or a signing
\* primitive that is unavailable or fails, the build has the outcome it has
\* without a key: it succeeds on valid inputs, and the module written has
\* signed flag 0, signature size 0 and no bytes after the body.
C10_BestEffortSigning ==
    (mod_pc # "idle" /\ ModInput.key.kind # "ok") =>
        /\ mod_result =
              create_hicmod([ModInput EXCEPT !.key = [kind |-> "none", pair |-> 0]],
                            FALSE, <<>>).result
        /\ ModInputsValid => (ModBuilt /\ mod_exists)
        /\ ModBuilt =>
              /\ ModSignedFlag = 0
              /\ ModSignatureSize = 0
              /\ ModTrailer = <<>>
              /\ Len(mod_file) = Len(ModHeader) + Len(ModBody)

\* A build whose key file could not be used has succeeded unsigned.
C10_Witness ==
    /\ ModBuilt
    /\ mod_exists
    /\ ModInput.key.kind \in {"unavailable", "fails"}
    /\ ModSignedFlag = 0
    /\ ModBody # <<>>

\* What verify_hicmod takes from the file it read.
VerifyKey == verify_input[1]

VerifySigned == Field(verify_file, 68, 4) % 2 = 1

VerifyBody ==
    Slice(verify_file, Field(verify_file, 44, 4),
          Field(verify_file, 44, 4) + Field(verify_file, 32, 4) + 256)

VerifySignature ==
    Slice(verify_file, Field(verify_file, 40, 4),
          Field(verify_file, 40, 4) + Field(verify_file, 64, 4))

VerifyChecksumMatches ==
    Slice(verify_file, 48, 64) = calculate_checksum(VerifyBody)

VerifySignatureValid ==
    /\ Field(verify_file, 40, 4) # 0
    /\ Field(verify_file, 64, 4) # 0
    /\ verify_signature(VerifyBody, VerifySignature, VerifyKey)

\* C11: verify_hicmod on an untampered module whose signed flag is set, called
\* without a public key, returns True and prints the warning that the module
\* is signed but no key was given to check it.
C11_SignedNoKeyWarns ==
    (mod_pc = "verified" /\ ModBuilt /\ verify_file = mod_file
        /\ ModSignedFlag = 1 /\ VerifyKey.kind = "none") =>
        /\ verify_result = "true"
        /\ \E i \in 1..Len(verify_log) : verify_log[i] = "warn_signed_no_key"

\* C12: verify_hicmod never returns True for a module that fails integrity: not
\* when the checksum recomputed over the stored body differs from the stored
\* checksum, and not when the signed flag is set, a public key is given and the
\* signature is missing (offset or size zero) or does not verify.
C12_NoSuccessOnIntegrityFailure ==
    (mod_pc = "verified" /\ mod_exists /\ Len(verify_file) >= 72) =>
        /\ ~VerifyChecksumMatches => verify_result = "false"
        /\ (VerifySigned /\ VerifyKey.kind # "none" /\ ~VerifySignatureValid)
               => verify_result = "false"

\* A written module was damaged afterwards, no longer matches its checksum and
\* was rejected for that.
C12_Witness ==
    /\ mod_pc = "verified"
    /\ ModBuilt
    /\ verify_file # mod_file
    /\ Len(verify_file) >= 72
    /\ ~VerifyChecksumMatches
    /\ verify_result = "false"
    /\ verify_log = <<"checksum_mismatch">>

\* The stripped lines of a metadata text.
StrippedLines(txt) ==
    [i \in 1..Len(split(txt, 10)) |-> strip(split(txt, 10)[i])]

IsSectionLine(line) ==
    line # <<>> /\ Head(line) = 91 /\ line[Len(line)] = 93

IsKeyValueLine(line) ==
    /\ line # <<>>
    /\ Head(line) # 35
    /\ ~IsSectionLine(line)
    /\ \E i \in 1..Len(line) : line[i] = 61

\* Some key=value line of the text comes before every section header.
KeyBeforeSection(lines) ==
    \E i \in 1..Len(lines) :
        /\ IsKeyValueLine(lines[i])
        /\ \A j \in 1..(i - 1) : ~IsSectionLine(lines[j])

\* The lines from the first section header on, <<>> when there is none.
FromFirstSection(lines) ==
    IF \E i \in 1..Len(lines) : IsSectionLine(lines[i])
    THEN SubSeq(lines,
                CHOOSE i \in 1..Len(lines) :
                    /\ IsSectionLine(lines[i])
                    /\ \A j \in 1..(i - 1) : ~IsSectionLine(lines[j]),
                Len(lines))
    ELSE <<>>

ParseLines == StrippedLines(parse_input.text)

\* C13 as stated: for a metadata text with a key=value line before any
\* [section] header, parse_hicmod_txt reports an error instead of returning a
\* metadata record.
C13_KeyBeforeSectionRejected ==
    (parse_pc = "done" /\ parse_input.exists /\ KeyBeforeSection(ParseLines)) =>
        parse_result.error # "none"

\* C13 as amended: a key=value line before any [section] header is ignored
\* without an error: parse_hicmod_txt returns the metadata record of the lines
\* from the first section header on, the empty record when there is no header.
C13_KeyBeforeSectionIgnored ==
    (parse_pc = "done" /\ parse_input.exists /\ KeyBeforeSection(ParseLines)) =>
        /\ parse_result.error = "none"
        /\ parse_result.metadata =
              parse_hicmod_txt(JoinLines(FromFirstSection(ParseLines)))
        /\ (FromFirstSection(ParseLines) = <<>>) => parse_result.metadata = <<>>

\* A text with a key=value line before its first section header was parsed, and
\* a key of that section was kept.
C13_Witness ==
    /\ parse_pc = "done"
    /\ parse_input.exists
    /\ KeyBeforeSection(ParseLines)
    /\ parse_result.error = "none"
    /\ \E sec \in DOMAIN parse_result.metadata : parse_result.metadata[sec] # <<>>

\* The parsed metadata has a service section with a name key.
ServiceNameGiven(metadata) ==
    /\ K_service \in DOMAIN metadata
    /\ K_name \in DOMAIN metadata[K_service]

\* A build from existing input files whose metadata gives no service name.
BuiltWithoutName ==
    /\ mod_pc # "idle"
    /\ ModInput.obj_exists
    /\ ModInput.txt_exists
    /\ ~ServiceNameGiven(parse_hicmod_txt(ModInput.txt))

\* C14 as stated: create_hicmod fails and produces no module whenever the
\* metadata has no service section or the service section has no name key.
C14_ServiceNameRequired ==
    BuiltWithoutName => (mod_result # "true" /\ ~mod_exists)

\* C14 as amended: a missing service section or name key does not fail the
\* build: create_hicmod never returns False for it, builds the module whenever
\* the versions parse, and names the module "unknown".
C14_ServiceNameDefaults ==
    BuiltWithoutName =>
        /\ mod_result # "false"
        /\ ModInputsValid => ModBuilt
        /\ ModBuilt => (mod_exists /\ mod_parts[1].name = V_unknown)

\* A module was built from metadata without a service section.
C14_Witness ==
    /\ BuiltWithoutName
    /\ ModBuilt
    /\ mod_exists
    /\ K_service \notin DOMAIN parse_hicmod_txt(ModInput.txt)
    /\ mod_parts[1].name = V_unknown

\* The service section of the metadata the module was built from.
ModService == Get(parse_hicmod_txt(ModInput.txt), K_service, <<>>)

ModUuidGiven == K_uuid \in DOMAIN ModService

ModUuidWellFormed == ModUuidGiven /\ uuid_parse(ModService[K_uuid]).ok

\* The uuid field of the written header.
ModHeaderUuid == Slice(mod_file, 8, 24)

\* C15 as stated: the UUID written to the header is the one given in the
\* metadata when it is present and well-formed, and the freshly generated
\* random UUID both when the uuid key is absent and when its value is malformed.
C15_UuidGivenOrFresh ==
    ModBuilt =>
        ModHeaderUuid = IF ModUuidWellFormed THEN uuid_parse(ModService[K_uuid]).bytes
                        ELSE ModInput.uuid4

\* C15 as amended: the UUID written to the header is the one given in the
\* metadata when it is present and well-formed, the freshly generated random
\* UUID when the uuid key is absent, and the MD5 digest of the module name when
\* the value is malformed.
C15_UuidGivenFreshOrNameDigest ==
    ModBuilt =>
        /\ ModHeaderUuid =
              IF ModUuidWellFormed THEN uuid_parse(ModService[K_uuid]).bytes
              ELSE IF ModUuidGiven THEN md5(utf8(mod_parts[1].name))
              ELSE ModInput.uuid4
        /\ (ModInput.txt = Txt_full) =>
              ModHeaderUuid = <<1, 35, 69, 103, 137, 171, 205, 239,
                                1, 35, 69, 103, 137, 171, 205, 239>>

\* A module was built from metadata whose uuid value is malformed; its header
\* holds the digest of the name and not the fresh UUID.
C15_Witness ==
    /\ ModBuilt
    /\ ModUuidGiven
    /\ ~ModUuidWellFormed
    /\ ModHeaderUuid = md5(utf8(mod_parts[1].name))
    /\ ModHeaderUuid # ModInput.uuid4

\* The version texts of the metadata, with the defaults of create_hicmod.
ModVersionStr == Get(ModService, K_version, V_1_0_0)

ModApiVersionStr == Get(ModService, K_api_version, V_1_0)

\* major << 16 | minor << 8 | patch of a dotted version text, components that
\* are missing counted as 0.
PackedVersionOf(str) == packed_version(pad3(ints(split(str, 46))))

\* C26: the written header holds the packed semantic version of the metadata
\* in its semantic_version field (offset 24) and the packed api_version in the
\* 32-bit field after it (offset 28).
C26_BothVersionsPacked ==
    ModBuilt =>
        /\ Field(mod_file, 24, 4) = PackedVersionOf(ModVersionStr)
        /\ Field(mod_file, 28, 4) = PackedVersionOf(ModApiVersionStr)

\* The header-size field of the written header.
ModHeaderSizeField == Field(mod_file, 44, 4)

\* C27: in every build, signed or not, the header is 72 bytes long, its
\* header-size field says so, and the body (object bytes, then metadata text)
\* is in the file at that offset, followed by nothing but the signature.
C27_HeaderIs72Bytes ==
    ModBuilt =>
        /\ Len(ModHeader) = 72
        /\ ModHeaderSizeField = 72
        /\ Slice(mod_file, ModHeaderSizeField,
                 ModHeaderSizeField + Len(ModBody)) = ModBody
        /\ mod_file = ModHeader \o ModBody \o ModSignature

====
